---- MODULE Spec2Model ----
(***************************************************************************)
(* tinybox (package tb): the terminal session, its two cell grids, the     *)
(* diff renderer, the resize/continue listeners and the event queue,       *)
(* modelled from src/tinybox/tb.go.                                        *)
(*                                                                         *)
(* The terminal device is modelled by what the emitted sequences do to it: *)
(* every write is a sequence of tokens (one token per escape sequence or   *)
(* glyph) which TtyApply interprets on the device state.                   *)
(***************************************************************************)
EXTENDS Integers, Sequences, FiniteSets, TLC

VARIABLES
    term,      \* the process-wide Terminal (tb.go:218-245)
    tty,       \* the terminal device: attributes, window, screen, cursor, SGR
               \* state, and the chunks of bytes waiting to be read from stdin
    written,   \* tokens written to stdout by the last operation
    sigwinch,  \* a notification is buffered in term.sigwinchCh (capacity 1)
    sigcont,   \* a notification is buffered in term.sigcontCh (capacity 1)
    panicked,  \* the Go runtime stopped the process (index out of range)
    ops,       \* number of operations so far (counted and bounded in Spec only)
    pc,        \* where the caller's thread is: "idle" between calls, "select"
               \* while PollEventTimeout waits for stdin to become readable
    listener,  \* where handleSigwinch is in the body of its loop, and the
               \* width and height it got from getTermSize
    last       \* the last operation that ran, its arguments and what it saw
               \* (handleSigwinch: x = queue length before, y = 1 if the size
               \* had changed; SetCell: snap = the pen attributes), and the
               \* operation before it if that was Present, Resume or Suspend

vars == <<term, tty, written, sigwinch, sigcont, panicked, ops, pc, listener, last>>

----------------------------------------------------------------------------
(* Bounds and input sets                                                   *)

\* operations (calls, notifications, listener runs) explored by Spec
MaxOps == 6

\* capacity of the event queue made by Init
QueueCap == 256

CursorBlock == 1

\* window sizes the device takes: width x height
Sizes == {<<2, 1>>, <<1, 2>>}
InitSize == <<2, 1>>

\* (glyph, fg, bg) triples the caller draws with; <<"X",0,0>> is also the
\* value Clear stores in the back buffer
Inks == {<<" ", 7, 0>>, <<"A", 1, 0>>, <<"X", 0, 0>>}

\* (bold, italic, underline, reverse) pens the caller selects
Attrs == {<<FALSE, FALSE, FALSE, FALSE>>, <<TRUE, FALSE, FALSE, TRUE>>}

\* (x, y) handed to SetCell: every cell of every grid, a position left of
\* and one above them; <<1, 0>> is right of the 1 x 2 grid and <<0, 1>> below
\* the 2 x 1 grid
Points == {<<0, 0>>, <<1, 0>>, <<0, 1>>, <<-1, 0>>, <<0, -1>>}

\* arguments of Scroll
ScrollArgs == {-3, -1, 0, 1, 2}

----------------------------------------------------------------------------
(* Cells and buffers                                                       *)

Cell(ch, fg, bg, bold, italic, under, rev, dirty) ==
    [Ch |-> ch, Fg |-> fg, Bg |-> bg, Bold |-> bold, Italic |-> italic,
     Under |-> under, Rev |-> rev, Dirty |-> dirty]

\* Cell{Ch: ' ', Fg: 7, Bg: 0, Dirty: true}
BlankCell == Cell(" ", 7, 0, FALSE, FALSE, FALSE, FALSE, TRUE)

\* Cell{Ch: 'X', Fg: 0, Bg: 0, Dirty: false}
ClearBackCell == Cell("X", 0, 0, FALSE, FALSE, FALSE, FALSE, FALSE)

\* the fields Present compares: everything but Dirty
SameCell(a, b) ==
    /\ a.Ch = b.Ch /\ a.Fg = b.Fg /\ a.Bg = b.Bg
    /\ a.Bold = b.Bold /\ a.Italic = b.Italic
    /\ a.Under = b.Under /\ a.Rev = b.Rev

initBuffer(width, height) ==
    [Width  |-> width,
     Height |-> height,
     Cells  |-> [y \in 0 .. height - 1 |-> [x \in 0 .. width - 1 |-> BlankCell]]]

\* len(cells) and len(cells[y]) of a [][]Cell
Rows(cells) == Cardinality(DOMAIN cells)
Cols(cells, y) == Cardinality(DOMAIN cells[y])

----------------------------------------------------------------------------
(* Terminal attributes (termios)                                           *)

LflagRaw == {"ECHO", "ICANON", "ISIG", "IEXTEN"}
IflagRaw == {"BRKINT", "ICRNL", "INPCK", "ISTRIP", "IXON"}

\* the attributes of a shell's terminal before the program starts
CookedTermios ==
    [Lflag |-> LflagRaw, Iflag |-> {"BRKINT", "ICRNL", "IXON"},
     Opost |-> TRUE, Cs8 |-> TRUE, Vmin |-> 1, Vtime |-> 0]

\* raw := *orig with the flags of enableRawMode cleared
MakeRaw(orig) ==
    [orig EXCEPT !.Lflag = @ \ LflagRaw, !.Iflag = @ \ IflagRaw,
                 !.Opost = FALSE, !.Cs8 = TRUE, !.Vmin = 1, !.Vtime = 0]

----------------------------------------------------------------------------
(* Emitted protocol: one token per escape sequence or glyph                *)

Tok(op, n, m, ch) == [op |-> op, n |-> n, m |-> m, ch |-> ch]

AlternateScreen == Tok("ALT", 1, 0, "")
NormalScreen    == Tok("ALT", 0, 0, "")
HideCursor      == Tok("CURSOR", 0, 0, "")
ShowCursor      == Tok("CURSOR", 1, 0, "")
ClearScreen     == Tok("CLS", 0, 0, "")
ResetColor      == Tok("SGR", 0, 0, "")
SetBold         == Tok("SGR", 1, 0, "")
SetItalic       == Tok("SGR", 3, 0, "")
SetUnderline    == Tok("SGR", 4, 0, "")
SetReverse      == Tok("SGR", 7, 0, "")
UnsetBold       == Tok("SGR", 22, 0, "")
UnsetItalic     == Tok("SGR", 23, 0, "")
UnsetUnderline  == Tok("SGR", 24, 0, "")
UnsetReverse    == Tok("SGR", 27, 0, "")

\* ESC [ row ; col H with row and col raised to 1
appendCursorMove(out, row, col) ==
    Append(out, Tok("CUP", IF row < 1 THEN 1 ELSE row, IF col < 1 THEN 1 ELSE col, ""))

\* ESC [ 38|48 ; 5 ; value m with value clamped to 0..255
appendSet256Color(out, fg, value) ==
    LET v == IF value < 0 THEN 0 ELSE IF value > 255 THEN 255 ELSE value
    IN  Append(out, Tok(IF fg THEN "FG" ELSE "BG", v, 0, ""))

----------------------------------------------------------------------------
(* The terminal device                                                     *)

\* what an erased position of the screen shows
ErasedCell == [Ch |-> " ", Fg |-> 7, Bg |-> 0, Bold |-> FALSE,
               Italic |-> FALSE, Under |-> FALSE, Rev |-> FALSE]

\* the rendition after ESC[0m
ResetSgr == [Fg |-> 7, Bg |-> 0, Bold |-> FALSE, Italic |-> FALSE,
             Under |-> FALSE, Rev |-> FALSE]

ErasedScreen(w, h) == [r \in 1 .. h |-> [c \in 1 .. w |-> ErasedCell]]

Min(a, b) == IF a < b THEN a ELSE b

\* the device after one token
TtyStep(d, tok) ==
    CASE tok.op = "ALT" ->
           [d EXCEPT !.alt = (tok.n = 1), !.screen = ErasedScreen(d.winW, d.winH)]
      [] tok.op = "CURSOR" -> [d EXCEPT !.cursorOn = (tok.n = 1)]
      [] tok.op = "CLS" -> [d EXCEPT !.screen = ErasedScreen(d.winW, d.winH)]
      [] tok.op = "CUP" ->
           [d EXCEPT !.row = Min(tok.n, d.winH), !.col = Min(tok.m, d.winW)]
      [] tok.op = "FG" -> [d EXCEPT !.sgr.Fg = tok.n]
      [] tok.op = "BG" -> [d EXCEPT !.sgr.Bg = tok.n]
      [] tok.op = "SGR" ->
           CASE tok.n = 0  -> [d EXCEPT !.sgr = ResetSgr]
             [] tok.n = 1  -> [d EXCEPT !.sgr.Bold = TRUE]
             [] tok.n = 22 -> [d EXCEPT !.sgr.Bold = FALSE]
             [] tok.n = 3  -> [d EXCEPT !.sgr.Italic = TRUE]
             [] tok.n = 23 -> [d EXCEPT !.sgr.Italic = FALSE]
             [] tok.n = 4  -> [d EXCEPT !.sgr.Under = TRUE]
             [] tok.n = 24 -> [d EXCEPT !.sgr.Under = FALSE]
             [] tok.n = 7  -> [d EXCEPT !.sgr.Rev = TRUE]
             [] tok.n = 27 -> [d EXCEPT !.sgr.Rev = FALSE]
             [] OTHER      -> d
      [] tok.op = "CH" ->
           \* a glyph lands at the cursor (after a wrap when the cursor is past
           \* the last column) and the cursor advances one column
           LET wrap == d.col > d.winW
               r == IF wrap THEN Min(d.row + 1, d.winH) ELSE d.row
               c == IF wrap THEN 1 ELSE d.col
               shown == [Ch |-> tok.ch, Fg |-> d.sgr.Fg, Bg |-> d.sgr.Bg,
                         Bold |-> d.sgr.Bold, Italic |-> d.sgr.Italic,
                         Under |-> d.sgr.Under, Rev |-> d.sgr.Rev]
           IN  IF d.winW = 0 \/ d.winH = 0 THEN d
               ELSE [d EXCEPT !.screen[r][c] = shown, !.row = r, !.col = c + 1]
      [] tok.op = "MOUSE" -> [d EXCEPT !.mouseOn = (tok.n = 1)]
      [] tok.op = "PASTE" -> [d EXCEPT !.pasteOn = (tok.n = 1)]
      [] OTHER -> d

RECURSIVE TtyApply(_, _)
TtyApply(d, toks) ==
    IF toks = <<>> THEN d ELSE TtyApply(TtyStep(d, Head(toks)), Tail(toks))

\* the window takes a new size: positions that stay keep what they show
TtyResize(d, w, h) ==
    [d EXCEPT !.winW = w, !.winH = h,
              !.screen = [r \in 1 .. h |-> [c \in 1 .. w |->
                             IF r <= d.winH /\ c <= d.winW THEN d.screen[r][c]
                             ELSE ErasedCell]],
              !.row = Min(d.row, h), !.col = Min(d.col, w)]

----------------------------------------------------------------------------
(* Present (tb.go:469-566)                                                 *)

HasCell(cells, y, x) == y \in DOMAIN cells /\ x \in DOMAIN cells[y]

\* the body of the inner loop for the cell at (x, y)
PresentCell(st, y, x) ==
    IF ~HasCell(st.front, y, x) \/ ~HasCell(st.back, y, x)
    THEN [st EXCEPT !.panic = TRUE]
    ELSE
    LET curr == st.front[y][x]
        back == st.back[y][x]
    IN  IF ~curr.Dirty THEN st
        ELSE IF SameCell(curr, back) THEN [st EXCEPT !.front[y][x].Dirty = FALSE]
        ELSE
        LET o1 == IF st.lastY # y \/ st.lastX # x
                  THEN appendCursorMove(st.out, y + 1, x + 1) ELSE st.out
            o2 == IF curr.Bold # st.activeBold
                  THEN Append(o1, IF curr.Bold THEN SetBold ELSE UnsetBold) ELSE o1
            o3 == IF curr.Italic # st.activeItalic
                  THEN Append(o2, IF curr.Italic THEN SetItalic ELSE UnsetItalic) ELSE o2
            o4 == IF curr.Under # st.activeUnder
                  THEN Append(o3, IF curr.Under THEN SetUnderline ELSE UnsetUnderline) ELSE o3
            o5 == IF curr.Rev # st.activeRev
                  THEN Append(o4, IF curr.Rev THEN SetReverse ELSE UnsetReverse) ELSE o4
            o6 == IF curr.Fg # st.activeFg THEN appendSet256Color(o5, TRUE, curr.Fg) ELSE o5
            o7 == IF curr.Bg # st.activeBg THEN appendSet256Color(o6, FALSE, curr.Bg) ELSE o6
            o8 == Append(o7, Tok("CH", 0, 0, curr.Ch))
        IN  [st EXCEPT !.out = o8,
                       !.back[y][x] = curr,
                       !.front[y][x].Dirty = FALSE,
                       !.dirtyWritten = TRUE,
                       !.lastY = y, !.lastX = x + 1,
                       !.activeBold = curr.Bold, !.activeItalic = curr.Italic,
                       !.activeUnder = curr.Under, !.activeRev = curr.Rev,
                       !.activeFg = curr.Fg, !.activeBg = curr.Bg]

\* the row-major pass over k = y * width + x
RECURSIVE PresentLoop(_, _, _, _)
PresentLoop(st, k, w, h) ==
    IF k >= w * h \/ st.panic THEN st
    ELSE PresentLoop(PresentCell(st, k \div w, k % w), k + 1, w, h)

\* Present that appends the reset whether or not a cell was emitted
PresentAlwaysResets(t) ==
    IF t.width = 0 \/ t.height = 0
    THEN [term |-> t, out |-> <<>>, panic |-> FALSE]
    ELSE
    LET st0 == [out |-> <<>>, lastY |-> -1, lastX |-> -1,
                activeFg |-> -1, activeBg |-> -1,
                activeBold |-> FALSE, activeItalic |-> FALSE,
                activeUnder |-> FALSE, activeRev |-> FALSE,
                dirtyWritten |-> FALSE, panic |-> FALSE,
                front |-> t.buffer.Cells, back |-> t.backBuffer.Cells]
        st  == PresentLoop(st0, 0, t.width, t.height)
        o1  == Append(st.out, ResetColor)
        o2  == IF t.cursorVisible /\ t.cursorX >= 0 /\ t.cursorY >= 0
               THEN appendCursorMove(o1, t.cursorY + 1, t.cursorX + 1) ELSE o1
    IN  [term  |-> [t EXCEPT !.buffer.Cells = st.front, !.backBuffer.Cells = st.back],
         out   |-> IF st.panic THEN <<>> ELSE o2,
         panic |-> st.panic]

\* Present that does not commit the emitted cells to the back buffer
PresentNoCommit(t) ==
    IF t.width = 0 \/ t.height = 0
    THEN [term |-> t, out |-> <<>>, panic |-> FALSE]
    ELSE
    LET st0 == [out |-> <<>>, lastY |-> -1, lastX |-> -1,
                activeFg |-> -1, activeBg |-> -1,
                activeBold |-> FALSE, activeItalic |-> FALSE,
                activeUnder |-> FALSE, activeRev |-> FALSE,
                dirtyWritten |-> FALSE, panic |-> FALSE,
                front |-> t.buffer.Cells, back |-> t.backBuffer.Cells]
        st  == PresentLoop(st0, 0, t.width, t.height)
        o1  == IF st.dirtyWritten THEN Append(st.out, ResetColor) ELSE st.out
        o2  == IF t.cursorVisible /\ t.cursorX >= 0 /\ t.cursorY >= 0
               THEN appendCursorMove(o1, t.cursorY + 1, t.cursorX + 1) ELSE o1
    IN  [term  |-> [t EXCEPT !.buffer.Cells = st.front],
         out   |-> IF st.panic THEN <<>> ELSE o2,
         panic |-> st.panic]

\* Present on session t: the session after it, the tokens of its single
\* write, and whether it indexed outside a grid
Present(t) ==
    IF t.width = 0 \/ t.height = 0
    THEN [term |-> t, out |-> <<>>, panic |-> FALSE]
    ELSE
    LET st0 == [out |-> <<>>, lastY |-> -1, lastX |-> -1,
                activeFg |-> -1, activeBg |-> -1,
                activeBold |-> FALSE, activeItalic |-> FALSE,
                activeUnder |-> FALSE, activeRev |-> FALSE,
                dirtyWritten |-> FALSE, panic |-> FALSE,
                front |-> t.buffer.Cells, back |-> t.backBuffer.Cells]
        st  == PresentLoop(st0, 0, t.width, t.height)
        o1  == IF st.dirtyWritten THEN Append(st.out, ResetColor) ELSE st.out
        o2  == IF t.cursorVisible /\ t.cursorX >= 0 /\ t.cursorY >= 0
               THEN appendCursorMove(o1, t.cursorY + 1, t.cursorX + 1) ELSE o1
    IN  [term  |-> [t EXCEPT !.buffer.Cells = st.front, !.backBuffer.Cells = st.back],
         out   |-> IF st.panic THEN <<>> ELSE o2,
         panic |-> st.panic]

----------------------------------------------------------------------------
(* Mode controller and size discovery                                      *)

\* getTermios: the TCGETS ioctl on stdin
getTermios(d) == [attrs |-> d.attrs, err |-> d.getErr]

\* setTermios: the TCSETS ioctl on stdin
setTermios(d, attrs) ==
    IF d.setErr THEN [tty |-> d, err |-> TRUE]
    ELSE [tty |-> [d EXCEPT !.attrs = attrs], err |-> FALSE]

\* enableRawMode: snapshot the device attributes, install the raw ones
enableRawMode(t, d) ==
    LET orig == getTermios(d)
    IN  IF orig.err THEN [term |-> t, tty |-> d, err |-> TRUE]
        ELSE LET set == setTermios(d, MakeRaw(orig.attrs))
             IN  [term |-> [t EXCEPT !.origTermios = orig.attrs],
                  tty  |-> set.tty, err |-> set.err]

\* disableRawMode: reinstall the snapshot
disableRawMode(t, d) == setTermios(d, t.origTermios)

\* n in decimal, as the terminal writes it
RECURSIVE Digits(_)
Digits(n) == IF n < 10 THEN <<48 + n>> ELSE Digits(n \div 10) \o <<48 + (n % 10)>>

\* buf[i]
At(buf, i) == buf[i + 1]

\* the loop of parseDecimal from index idx with val accumulated
RECURSIVE parseDigits(_, _, _)
parseDigits(buf, idx, val) ==
    IF idx < Len(buf) /\ At(buf, idx) >= 48 (* '0' *) /\ At(buf, idx) <= 57 (* '9' *)
    THEN parseDigits(buf, idx + 1, val * 10 + (At(buf, idx) - 48 (* '0' *)))
    ELSE [value |-> val, next |-> idx]

parseDecimal(buf, idx) ==
    IF idx >= Len(buf) THEN [value |-> 0, next |-> idx, ok |-> FALSE]
    ELSE LET r == parseDigits(buf, idx, 0)
         IN  IF r.next = idx THEN [value |-> 0, next |-> idx, ok |-> FALSE]
             ELSE [value |-> r.value, next |-> r.next, ok |-> TRUE]

\* how the terminal answers the cursor-position query within the second
\* queryTermSize waits: with ESC [ row ; col R, not at all, with fewer than
\* 6 bytes, or with 6 or more bytes that are not such a report
Replies == {"report", "timeout", "short", "garbled"}

\* the bytes the terminal sends in reply to the query, at being the device
\* after the query (its cursor as far down and right as it goes): the
\* report, nothing, ESC [, or ESC [ ? 1 ; 2 c
QueryReply(at) ==
    CASE at.replies = "report"  ->
            <<27, 91>> \o Digits(at.row) \o <<59>> \o Digits(at.col) \o <<82>>
      [] at.replies = "timeout" -> <<>>
      [] at.replies = "short"   -> <<27, 91>>
      [] OTHER                  -> <<27, 91, 63, 49, 59, 50, 99>>

\* the end of fmt.Sscanf(response[2:], "%d;%dR", &row, &col): the column
\* and the R, row being the number scanned before
ScanCol(response, row, col) ==
    IF col.ok /\ col.next < Len(response) /\ At(response, col.next) = 82 (* 'R' *)
    THEN [row |-> row.value, col |-> col.value, ok |-> TRUE]
    ELSE [row |-> 0, col |-> 0, ok |-> FALSE]

\* its middle: the ';' after the row
ScanRow(response, row) ==
    IF row.ok /\ row.next < Len(response) /\ At(response, row.next) = 59 (* ';' *)
    THEN ScanCol(response, row, parseDecimal(response, row.next + 1))
    ELSE [row |-> 0, col |-> 0, ok |-> FALSE]

\* the test for ESC [ and the Sscanf on a response of n >= 6 bytes
\* (responses with signs or blanks before the numbers do not occur here)
ScanReport(response) ==
    IF Len(response) >= 6 /\ At(response, 0) = 27 /\ At(response, 1) = 91 (* '[' *)
    THEN ScanRow(response, parseDecimal(response, 2))
    ELSE [row |-> 0, col |-> 0, ok |-> FALSE]

\* what queryTermSize returns for the n bytes it read and their scan
QueryResult(n, scan, out, rest) ==
    IF n = 0
    THEN [w |-> 80, h |-> 24, err |-> TRUE, out |-> out, stdin |-> rest]
    ELSE IF n < 6
    THEN [w |-> 80, h |-> 24, err |-> TRUE, out |-> out, stdin |-> rest]
    ELSE IF scan.ok
    THEN [w |-> scan.col, h |-> scan.row, err |-> FALSE, out |-> out, stdin |-> rest]
    ELSE [w |-> 80, h |-> 24, err |-> FALSE, out |-> out, stdin |-> rest]

\* queryTermSize after its write: wait up to one second for stdin to become
\* readable and read up to 32 bytes from it, avail being the bytes there
\* are to read and late those that reach stdin after the read
ReadReport(avail, late, out) ==
    QueryResult(Min(32, Len(avail)),
                ScanReport(SubSeq(avail, 1, Min(32, Len(avail)))),
                out, SubSeq(avail, 33, Len(avail)) \o late)

\* queryTermSize: move the cursor to 999;999, ask for its position and read
\* the reply: [w, h, err, out, stdin], stdin being what is left to read
\* afterwards.  Input that was waiting on stdin is read first; the reply of
\* a slow terminal (d.slow) then reaches stdin only after that read.
queryTermSize(d) ==
    CHOOSE r \in
        {IF d.slow /\ d.stdin # <<>>
         THEN ReadReport(d.stdin, reply, <<Tok("CUP", 999, 999, ""), Tok("DSR", 6, 0, "")>>)
         ELSE ReadReport(d.stdin \o reply, <<>>, <<Tok("CUP", 999, 999, ""), Tok("DSR", 6, 0, "")>>) :
            reply \in {QueryReply(TtyApply(d, <<Tok("CUP", 999, 999, "")>>))}} : TRUE

\* getTermSize: COLUMNS/LINES, then the window-size ioctl, then queryTermSize
getTermSize(d) ==
    IF d.envCols > 0 /\ d.envLines > 0
    THEN [w |-> d.envCols, h |-> d.envLines, err |-> FALSE, out |-> <<>>,
          stdin |-> d.stdin]
    ELSE IF d.ioctlOk
    THEN [w |-> d.winW, h |-> d.winH, err |-> FALSE, out |-> <<>>,
          stdin |-> d.stdin]
    ELSE queryTermSize(d)

----------------------------------------------------------------------------
(* Screen state                                                            *)

\* SetCell with the bounds test replaced by clamping
SetCellClamped(t, x, y, ch, fg, bg) ==
    LET cx == IF x < 0 THEN 0 ELSE IF x >= t.width THEN t.width - 1 ELSE x
        cy == IF y < 0 THEN 0 ELSE IF y >= t.height THEN t.height - 1 ELSE y
    IN  [t EXCEPT !.buffer.Cells[cy][cx] =
            Cell(ch, fg, bg, t.currentBold, t.currentItalic,
                 t.currentUnder, t.currentRev, TRUE)]

\* SetCell that stores the pen's colors instead of the requested ones
SetCellPenColor(t, x, y, ch, fg, bg) ==
    IF x < 0 \/ x >= t.width \/ y < 0 \/ y >= t.height THEN t
    ELSE [t EXCEPT !.buffer.Cells[y][x] =
            Cell(ch, t.currentFg, t.currentBg, t.currentBold, t.currentItalic,
                 t.currentUnder, t.currentRev, TRUE)]

\* SetCell that stores and marks dirty without comparing
SetCellAlwaysDirty(t, x, y, ch, fg, bg) ==
    IF x < 0 \/ x >= t.width \/ y < 0 \/ y >= t.height THEN t
    ELSE [t EXCEPT !.buffer.Cells[y][x] =
            Cell(ch, fg, bg, t.currentBold, t.currentItalic,
                 t.currentUnder, t.currentRev, TRUE)]

SetCell(t, x, y, ch, fg, bg) ==
    IF x < 0 \/ x >= t.width \/ y < 0 \/ y >= t.height THEN t
    ELSE
    LET cell == t.buffer.Cells[y][x]
    IN  IF \/ cell.Ch # ch \/ cell.Fg # fg \/ cell.Bg # bg
           \/ cell.Bold # t.currentBold \/ cell.Italic # t.currentItalic
           \/ cell.Under # t.currentUnder \/ cell.Rev # t.currentRev
        THEN [t EXCEPT !.buffer.Cells[y][x] =
                Cell(ch, fg, bg, t.currentBold, t.currentItalic,
                     t.currentUnder, t.currentRev, TRUE)]
        ELSE t

GetCell(t, x, y) ==
    IF x < 0 \/ x >= t.width \/ y < 0 \/ y >= t.height THEN <<" ", 7, 0>>
    ELSE LET cell == t.buffer.Cells[y][x] IN <<cell.Ch, cell.Fg, cell.Bg>>

Clear(t) ==
    [t EXCEPT !.currentFg = 7, !.currentBg = 0,
              !.currentBold = FALSE, !.currentItalic = FALSE,
              !.currentUnder = FALSE, !.currentRev = FALSE,
              !.buffer.Cells = [y \in DOMAIN @ |-> [x \in DOMAIN @[y] |->
                  IF y < t.height /\ x < t.width THEN BlankCell ELSE @[y][x]]],
              !.backBuffer.Cells = [y \in DOMAIN @ |-> [x \in DOMAIN @[y] |->
                  IF y < t.height /\ x < t.width THEN ClearBackCell ELSE @[y][x]]]]

SetColor(t, fg, bg) == [t EXCEPT !.currentFg = fg, !.currentBg = bg]

SetAttr(t, bold, italic, underline, reverse) ==
    [t EXCEPT !.currentBold = bold, !.currentItalic = italic,
              !.currentUnder = underline, !.currentRev = reverse]

\* Scroll(lines): the session after it and whether it indexed a row outside
\* the grid.  Both loops of a branch read rows the branch has not yet written,
\* so row y receives the old row y - lines (lines > 0) or y + n (lines = -n).
Scroll(t, lines) ==
    LET h == t.height
        w == t.width
        old == t.buffer.Cells
        dirty(row) == [x \in DOMAIN row |-> [row[x] EXCEPT !.Dirty = TRUE]]
        blank(row) == [x \in DOMAIN row |-> IF x < w THEN BlankCell ELSE row[x]]
    IN  IF lines = 0 THEN [term |-> t, panic |-> FALSE]
        ELSE IF lines > 0 THEN
            [term |-> [t EXCEPT !.buffer.Cells = [y \in DOMAIN old |->
                          IF y >= lines /\ y <= h - 1 THEN dirty(old[y - lines])
                          ELSE IF y < lines /\ y < h THEN blank(old[y])
                          ELSE old[y]]],
             panic |-> FALSE]
        ELSE
            LET n == -lines
            IN  IF h - n < 0 /\ w > 0
                THEN \* the second loop starts at y = height - n < 0
                     [term |-> t, panic |-> TRUE]
                ELSE [term |-> [t EXCEPT !.buffer.Cells = [y \in DOMAIN old |->
                          IF y < h - n THEN dirty(old[y + n])
                          ELSE IF y >= h - n /\ y < h THEN blank(old[y])
                          ELSE old[y]]],
                      panic |-> FALSE]

\* the zero Cell of a fresh make([]Cell, n)
ZeroCell == Cell("", 0, 0, FALSE, FALSE, FALSE, FALSE, FALSE)

SaveBuffer(t) ==
    LET sv == t.savedBuffer
        needRealloc == \/ sv.isNil
                       \/ Rows(sv.cells) # t.height
                       \/ (Rows(sv.cells) > 0 /\ Cols(sv.cells, 0) # t.width)
        base == IF needRealloc
                THEN [y \in 0 .. t.height - 1 |-> [x \in 0 .. t.width - 1 |-> ZeroCell]]
                ELSE sv.cells
    IN  [t EXCEPT !.savedBuffer =
            [isNil |-> FALSE,
             cells |-> [y \in DOMAIN base |-> [x \in DOMAIN base[y] |->
                          IF y < t.height /\ x < t.width /\ HasCell(t.buffer.Cells, y, x)
                          THEN t.buffer.Cells[y][x] ELSE base[y][x]]]]]

\* RestoreBuffer that copies the saved cell with the Dirty flag it was saved with
RestoreBufferKeepFlag(t) ==
    IF t.savedBuffer.isNil THEN t
    ELSE [t EXCEPT !.buffer.Cells = [y \in DOMAIN @ |-> [x \in DOMAIN @[y] |->
            IF y < t.height /\ x < t.width /\ HasCell(t.savedBuffer.cells, y, x)
            THEN t.savedBuffer.cells[y][x] ELSE @[y][x]]]]

RestoreBuffer(t) ==
    IF t.savedBuffer.isNil THEN t
    ELSE [t EXCEPT !.buffer.Cells = [y \in DOMAIN @ |-> [x \in DOMAIN @[y] |->
            IF y < t.height /\ x < t.width /\ HasCell(t.savedBuffer.cells, y, x)
            THEN [t.savedBuffer.cells[y][x] EXCEPT !.Dirty = TRUE]
            ELSE @[y][x]]]]

----------------------------------------------------------------------------
(* Drawing helpers: loops of SetCell calls                                 *)

BoxTopLeft     == "U+250C"
BoxTopRight    == "U+2510"
BoxBottomLeft  == "U+2514"
BoxBottomRight == "U+2518"
BoxHorizontal  == "U+2500"
BoxVertical    == "U+2502"

\* bytes of the UTF-8 encoding of a glyph; a text is a sequence of glyphs
RuneLen(ch) ==
    IF ch \in {BoxTopLeft, BoxTopRight, BoxBottomLeft, BoxBottomRight,
               BoxHorizontal, BoxVertical} THEN 3
    ELSE IF ch = "U+00E9" THEN 2
    ELSE 1

\* the byte offset of the i-th glyph of text: the index `range` yields
RECURSIVE ByteOffset(_, _)
ByteOffset(text, i) ==
    IF i <= 1 THEN 0 ELSE ByteOffset(text, i - 1) + RuneLen(text[i - 1])

\* len(text), in bytes
ByteLen(text) == ByteOffset(text, Len(text) + 1)

\* Go's integer division, which truncates toward zero
GoDiv(a, b) == IF a >= 0 THEN a \div b ELSE -((-a) \div b)

\* SetCell for each <<x, y, ch, fg, bg>> of calls, in order
RECURSIVE SetCells(_, _)
SetCells(t, calls) ==
    IF calls = <<>> THEN t
    ELSE LET c == Head(calls)
         IN  SetCells(SetCell(t, c[1], c[2], c[3], c[4], c[5]), Tail(calls))

\* the calls a loop makes: body(k) for k = 0 .. n-1, kept where keep(k)
Loop(n, keep(_), body(_)) ==
    LET all  == [k \in 1 .. (IF n > 0 THEN n ELSE 0) |-> <<keep(k - 1), body(k - 1)>>]
        kept == SelectSeq(all, LAMBDA e : e[1])
    IN  [i \in 1 .. Len(kept) |-> kept[i][2]]

\* the dy/dx double loop of Fill, ClearRegion and ClearRect, flattened
RectLoop(w, h, keep(_, _), body(_, _)) ==
    IF w <= 0 \/ h <= 0 THEN <<>>
    ELSE LET keepK(k) == keep(k % w, k \div w)
             bodyK(k) == body(k % w, k \div w)
         IN  Loop(w * h, keepK, bodyK)

Fill(t, x, y, w, h, ch) ==
    LET keep(dx, dy) == TRUE
        body(dx, dy) == <<x + dx, y + dy, ch, t.currentFg, t.currentBg>>
    IN  SetCells(t, RectLoop(w, h, keep, body))

PrintAt(t, x, y, text) ==
    LET keep(k) == TRUE
        body(k) == <<x + ByteOffset(text, k + 1), y, text[k + 1],
                     t.currentFg, t.currentBg>>
    IN  SetCells(t, Loop(Len(text), keep, body))

Box(t, x, y, w, h) ==
    IF w < 2 \/ h < 2 THEN t
    ELSE
    LET fg == t.currentFg
        bg == t.currentBg
        keep(k) == TRUE
        corners == << <<x, y, BoxTopLeft, fg, bg>>,
                      <<x + w - 1, y, BoxTopRight, fg, bg>>,
                      <<x, y + h - 1, BoxBottomLeft, fg, bg>>,
                      <<x + w - 1, y + h - 1, BoxBottomRight, fg, bg>> >>
        top(k)    == <<x + 1 + k \div 2, IF k % 2 = 0 THEN y ELSE y + h - 1,
                       BoxHorizontal, fg, bg>>
        side(k)   == <<IF k % 2 = 0 THEN x ELSE x + w - 1, y + 1 + k \div 2,
                       BoxVertical, fg, bg>>
    IN  SetCells(t, corners \o Loop(2 * (w - 2), keep, top)
                            \o Loop(2 * (h - 2), keep, side))

HLine(t, x, y, length, ch) ==
    LET keep(i) == x + i < t.width
        body(i) == <<x + i, y, ch, t.currentFg, t.currentBg>>
    IN  SetCells(t, Loop(length, keep, body))

VLine(t, x, y, length, ch) ==
    LET keep(i) == y + i < t.height
        body(i) == <<x, y + i, ch, t.currentFg, t.currentBg>>
    IN  SetCells(t, Loop(length, keep, body))

ClearRect(t, x, y, w, h) ==
    LET keep(dx, dy) == /\ x + dx >= 0 /\ x + dx < t.width
                        /\ y + dy >= 0 /\ y + dy < t.height
        body(dx, dy) == <<x + dx, y + dy, " ", 7, t.currentBg>>
    IN  SetCells(t, RectLoop(w, h, keep, body))

ClearRegion(t, x, y, w, h) ==
    LET keep(dx, dy) == TRUE
        body(dx, dy) == <<x + dx, y + dy, " ", 7, 0>>
    IN  SetCells(t, RectLoop(w, h, keep, body))

ClearLine(t, y) ==
    LET keep(x) == TRUE
        body(x) == <<x, y, " ", 7, 0>>
    IN  SetCells(t, Loop(t.width, keep, body))

DrawTextLeft(t, y, text, fg, bg) ==
    LET keep(k) == ByteOffset(text, k + 1) < t.width
        body(k) == <<ByteOffset(text, k + 1), y, text[k + 1], fg, bg>>
    IN  SetCells(t, Loop(Len(text), keep, body))

DrawTextCenter(t, y, text, fg, bg) ==
    LET s0 == GoDiv(t.width - ByteLen(text), 2)
        startX == IF s0 < 0 THEN 0 ELSE s0
        keep(k) == startX + ByteOffset(text, k + 1) < t.width
        body(k) == <<startX + ByteOffset(text, k + 1), y, text[k + 1], fg, bg>>
    IN  SetCells(t, Loop(Len(text), keep, body))

DrawTextRight(t, y, text, fg, bg) ==
    LET s0 == t.width - ByteLen(text)
        startX == IF s0 < 0 THEN 0 ELSE s0
        keep(k) == /\ startX + ByteOffset(text, k + 1) < t.width
                   /\ startX + ByteOffset(text, k + 1) >= 0
        body(k) == <<startX + ByteOffset(text, k + 1), y, text[k + 1], fg, bg>>
    IN  SetCells(t, Loop(Len(text), keep, body))

----------------------------------------------------------------------------
(* Events and the input decoder (tb.go:693-897).  A chunk is what one read  *)
(* returned: a sequence of bytes 0..255, indexed from 0 as in the source;   *)
(* a byte the decoder tests for is written as its code, with the character *)
(* beside it.                                                              *)

Event(type, key, ch, x, y, button, mod, press) ==
    [Type |-> type, Key |-> key, Ch |-> ch, X |-> x, Y |-> y,
     Button |-> button, Mod |-> mod, Press |-> press]

\* Event{}
ZeroEvent == Event("EventKey", 0, 0, 0, 0, 0, 0, FALSE)

KeyCtrlC == 1
KeyCtrlD == 2
KeyEscape == 3
KeyEnter == 4
KeyTab == 5
KeyBackspace == 6
KeyArrowUp == 7
KeyArrowDown == 8
KeyArrowLeft == 9
KeyArrowRight == 10
KeyCtrlA == 11
KeyCtrlE == 12
KeyCtrlK == 13
KeyCtrlU == 14
KeyCtrlW == 15
KeyF1 == 16
KeyHome == 28
KeyEnd == 29
KeyPageUp == 30
KeyPageDown == 31
KeyDelete == 32

MouseLeft == 0
MouseMiddle == 1
MouseRight == 2
MouseWheelUp == 3
MouseWheelDown == 4

\* Event{Type: EventKey, Key: key}
KeyEvent(key) == [ZeroEvent EXCEPT !.Key = key]

Failed(msg) == [evt |-> ZeroEvent, err |-> msg]
Decoded(evt) == [evt |-> evt, err |-> ""]

\* parseSGRMouse that reports the coordinates as they came, 1-based
parseSGRMouseOneBased(buf) ==
    IF Len(buf) < 9 \/ At(buf, 0) # 27 \/ At(buf, 1) # 91 (* '[' *)
                    \/ At(buf, 2) # 60 (* '<' *)
    THEN Failed("not SGR mouse format")
    ELSE
    LET b == parseDecimal(buf, 3)
    IN  IF ~b.ok THEN Failed("invalid SGR mouse button")
        ELSE IF b.next >= Len(buf) \/ At(buf, b.next) # 59 (* ';' *)
        THEN Failed("invalid SGR mouse separator")
        ELSE
        LET x == parseDecimal(buf, b.next + 1)
        IN  IF ~x.ok THEN Failed("invalid SGR mouse x")
            ELSE IF x.next >= Len(buf) \/ At(buf, x.next) # 59 (* ';' *)
            THEN Failed("invalid SGR mouse separator")
            ELSE
            LET y == parseDecimal(buf, x.next + 1)
            IN  IF ~y.ok THEN Failed("invalid SGR mouse y")
                ELSE IF y.next >= Len(buf) THEN Failed("no SGR terminator found")
                ELSE IF At(buf, y.next) \notin {77 (* 'M' *), 109 (* 'm' *)}
                THEN Failed("invalid SGR mouse terminator")
                ELSE
                LET press == At(buf, y.next) = 77 (* 'M' *)
                    low == CASE b.value % 4 = 1 -> MouseMiddle
                             [] b.value % 4 = 2 -> MouseRight
                             [] OTHER -> MouseLeft
                    mouseButton == IF b.value >= 64
                                   THEN IF b.value % 2 # 0 THEN MouseWheelDown
                                        ELSE MouseWheelUp
                                   ELSE low
                IN  Decoded(Event("EventMouse", 0, 0, x.value, y.value,
                                  mouseButton, 0, press))

\* ESC [ < button ; x ; y M|m
parseSGRMouse(buf) ==
    IF Len(buf) < 9 \/ At(buf, 0) # 27 \/ At(buf, 1) # 91 (* '[' *)
                    \/ At(buf, 2) # 60 (* '<' *)
    THEN Failed("not SGR mouse format")
    ELSE
    LET b == parseDecimal(buf, 3)
    IN  IF ~b.ok THEN Failed("invalid SGR mouse button")
        ELSE IF b.next >= Len(buf) \/ At(buf, b.next) # 59 (* ';' *)
        THEN Failed("invalid SGR mouse separator")
        ELSE
        LET x == parseDecimal(buf, b.next + 1)
        IN  IF ~x.ok THEN Failed("invalid SGR mouse x")
            ELSE IF x.next >= Len(buf) \/ At(buf, x.next) # 59 (* ';' *)
            THEN Failed("invalid SGR mouse separator")
            ELSE
            LET y == parseDecimal(buf, x.next + 1)
            IN  IF ~y.ok THEN Failed("invalid SGR mouse y")
                ELSE IF y.next >= Len(buf) THEN Failed("no SGR terminator found")
                ELSE IF At(buf, y.next) \notin {77 (* 'M' *), 109 (* 'm' *)}
                THEN Failed("invalid SGR mouse terminator")
                ELSE
                LET press == At(buf, y.next) = 77 (* 'M' *)
                    low == CASE b.value % 4 = 1 -> MouseMiddle
                             [] b.value % 4 = 2 -> MouseRight
                             [] OTHER -> MouseLeft
                    mouseButton == IF b.value >= 64
                                   THEN IF b.value % 2 # 0 THEN MouseWheelDown
                                        ELSE MouseWheelUp
                                   ELSE low
                IN  Decoded(Event("EventMouse", 0, 0, x.value - 1, y.value - 1,
                                  mouseButton, 0, press))

\* the legacy report ESC [ M b x y, given its three bytes after the M
parseMouseEvent(buf) ==
    IF Len(buf) < 3 THEN Failed("incomplete mouse event")
    ELSE
    LET b == (At(buf, 0) - 32) % 256
        x == At(buf, 1) - 32
        y == At(buf, 2) - 32
        low == CASE b % 4 = 1 -> MouseMiddle
                 [] b % 4 = 2 -> MouseRight
                 [] OTHER -> MouseLeft
        button == IF (b \div 64) % 2 # 0
                  THEN IF b % 2 # 0 THEN MouseWheelDown ELSE MouseWheelUp
                  ELSE low
    IN  Decoded(Event("EventMouse", 0, 0, x, y, button, 0, TRUE))

\* a switch on a single byte that takes the byte itself for the Key
ControlKeyAsCode(ch) ==
    IF ch \in {1, 3, 4, 5, 9, 11, 13, 21, 23, 127} THEN ch ELSE 0

\* the keys of the switch on a single byte
ControlKey(ch) ==
    CASE ch = 1 -> KeyCtrlA [] ch = 3 -> KeyCtrlC [] ch = 4 -> KeyCtrlD
      [] ch = 5 -> KeyCtrlE [] ch = 9 -> KeyTab [] ch = 11 -> KeyCtrlK
      [] ch = 13 -> KeyEnter [] ch = 21 -> KeyCtrlU [] ch = 23 -> KeyCtrlW
      [] ch = 127 -> KeyBackspace [] OTHER -> 0

\* the switch on buf[2] with the arrows in the order of the Key constants:
\* 'C' as left and 'D' as right
CsiSwitchKeyOrder(buf) ==
    LET c == At(buf, 2)
        tilde == Len(buf) >= 4 /\ At(buf, 3) = 126 (* '~' *)
    IN  CASE c = 65 (* 'A' *) -> Decoded(KeyEvent(KeyArrowUp))
          [] c = 66 (* 'B' *) -> Decoded(KeyEvent(KeyArrowDown))
          [] c = 67 (* 'C' *) -> Decoded(KeyEvent(KeyArrowLeft))
          [] c = 68 (* 'D' *) -> Decoded(KeyEvent(KeyArrowRight))
          [] c = 72 (* 'H' *) -> Decoded(KeyEvent(KeyHome))
          [] c = 70 (* 'F' *) -> Decoded(KeyEvent(KeyEnd))
          [] c = 49 (* '1' *) /\ tilde -> Decoded(KeyEvent(KeyHome))
          [] c = 51 (* '3' *) /\ tilde -> Decoded(KeyEvent(KeyDelete))
          [] c = 53 (* '5' *) /\ tilde -> Decoded(KeyEvent(KeyPageUp))
          [] c = 54 (* '6' *) /\ tilde -> Decoded(KeyEvent(KeyPageDown))
          [] c = 77 (* 'M' *) /\ Len(buf) >= 6 ->
                parseMouseEvent(SubSeq(buf, 4, 6))
          [] OTHER -> Failed("none")

\* the switch on buf[2] of a chunk ESC [ ...: the event it returns, or
\* "none" where the switch falls out
CsiSwitch(buf) ==
    LET c == At(buf, 2)
        tilde == Len(buf) >= 4 /\ At(buf, 3) = 126 (* '~' *)
    IN  CASE c = 65 (* 'A' *) -> Decoded(KeyEvent(KeyArrowUp))
          [] c = 66 (* 'B' *) -> Decoded(KeyEvent(KeyArrowDown))
          [] c = 67 (* 'C' *) -> Decoded(KeyEvent(KeyArrowRight))
          [] c = 68 (* 'D' *) -> Decoded(KeyEvent(KeyArrowLeft))
          [] c = 72 (* 'H' *) -> Decoded(KeyEvent(KeyHome))
          [] c = 70 (* 'F' *) -> Decoded(KeyEvent(KeyEnd))
          [] c = 49 (* '1' *) /\ tilde -> Decoded(KeyEvent(KeyHome))
          [] c = 51 (* '3' *) /\ tilde -> Decoded(KeyEvent(KeyDelete))
          [] c = 53 (* '5' *) /\ tilde -> Decoded(KeyEvent(KeyPageUp))
          [] c = 54 (* '6' *) /\ tilde -> Decoded(KeyEvent(KeyPageDown))
          [] c = 77 (* 'M' *) /\ Len(buf) >= 6 ->
                parseMouseEvent(SubSeq(buf, 4, 6))
          [] OTHER -> Failed("none")

\* parseInput that returns the error of parseSGRMouse to its caller
parseInputStrict(buf) ==
    IF Len(buf) = 0 THEN Failed("no input")
    ELSE
    LET ch == At(buf, 0)
    IN  IF ch = 27
        THEN
          IF Len(buf) = 1 THEN Decoded(KeyEvent(KeyEscape))
          ELSE
          LET sgr == IF Len(buf) >= 6 /\ At(buf, 1) = 91 (* '[' *)
                                      /\ At(buf, 2) = 60 (* '<' *)
                     THEN parseSGRMouse(buf) ELSE Failed("none")
          IN  IF sgr.err \notin {"", "none"} THEN sgr
              ELSE IF sgr.err = "" THEN sgr
              ELSE IF Len(buf) >= 3 /\ At(buf, 1) = 91 (* '[' *)
              THEN
                LET sw == CsiSwitch(buf)
                IN  IF sw.err # "none" THEN sw
                    ELSE IF /\ Len(buf) >= 5 /\ At(buf, 2) = 49 (* '1' *)
                            /\ At(buf, 3) \in 49 (* '1' *) .. 53 (* '5' *)
                            /\ At(buf, 4) = 126 (* '~' *)
                    THEN Decoded(KeyEvent(KeyF1 + (At(buf, 3) - 49 (* '1' *))))
                    ELSE Decoded(KeyEvent(KeyEscape))
              ELSE Decoded(KeyEvent(KeyEscape))
        ELSE IF ControlKey(ch) # 0 THEN Decoded(KeyEvent(ControlKey(ch)))
        ELSE Decoded([ZeroEvent EXCEPT !.Ch = ch])

parseInput(buf) ==
    IF Len(buf) = 0 THEN Failed("no input")
    ELSE
    LET ch == At(buf, 0)
    IN  IF ch = 27
        THEN
          IF Len(buf) = 1 THEN Decoded(KeyEvent(KeyEscape))
          ELSE
          LET sgr == IF Len(buf) >= 6 /\ At(buf, 1) = 91 (* '[' *)
                                      /\ At(buf, 2) = 60 (* '<' *)
                     THEN parseSGRMouse(buf) ELSE Failed("none")
          IN  IF sgr.err = "" THEN sgr
              ELSE IF Len(buf) >= 3 /\ At(buf, 1) = 91 (* '[' *)
              THEN
                LET sw == CsiSwitch(buf)
                IN  IF sw.err # "none" THEN sw
                    ELSE IF /\ Len(buf) >= 5 /\ At(buf, 2) = 49 (* '1' *)
                            /\ At(buf, 3) \in 49 (* '1' *) .. 53 (* '5' *)
                            /\ At(buf, 4) = 126 (* '~' *)
                    THEN Decoded(KeyEvent(KeyF1 + (At(buf, 3) - 49 (* '1' *))))
                    ELSE Decoded(KeyEvent(KeyEscape))
              ELSE Decoded(KeyEvent(KeyEscape))
        ELSE IF ControlKey(ch) # 0 THEN Decoded(KeyEvent(ControlKey(ch)))
        ELSE Decoded([ZeroEvent EXCEPT !.Ch = ch])

----------------------------------------------------------------------------
(* Session life cycle, suspend/resume, listeners, polling                  *)

\* Init without the test of term.initialized
InitAgain(t, d) ==
    LET sz == getTermSize(d)
        d1 == [TtyApply(d, sz.out) EXCEPT !.stdin = sz.stdin]
    IN  IF sz.err
        THEN [term |-> t, tty |-> d1, out |-> sz.out, err |-> TRUE, started |-> FALSE]
        ELSE
        LET raw == enableRawMode(t, d1)
            out == <<AlternateScreen, HideCursor, ClearScreen>>
        IN  IF raw.err
            THEN [term |-> raw.term, tty |-> raw.tty, out |-> sz.out,
                  err |-> TRUE, started |-> FALSE]
            ELSE
            [term |-> [raw.term EXCEPT
                          !.width = sz.w, !.height = sz.h,
                          !.buffer = initBuffer(sz.w, sz.h),
                          !.backBuffer = initBuffer(sz.w, sz.h),
                          !.eventQueue = <<>>, !.queueCap = QueueCap,
                          !.initialized = TRUE, !.isRaw = TRUE,
                          !.currentFg = 7, !.currentBg = 0,
                          !.cursorVisible = TRUE, !.cursorStyle = CursorBlock,
                          !.escDelay = 25],
             tty  |-> TtyApply(raw.tty, out),
             out  |-> sz.out \o out, err |-> FALSE, started |-> TRUE]

\* Init: [term, tty, out, err, started]; started says the listeners were started
Init(t, d) ==
    IF t.initialized
    THEN [term |-> t, tty |-> d, out |-> <<>>, err |-> TRUE, started |-> FALSE]
    ELSE
    LET sz == getTermSize(d)
        d1 == [TtyApply(d, sz.out) EXCEPT !.stdin = sz.stdin]
    IN  IF sz.err
        THEN [term |-> t, tty |-> d1, out |-> sz.out, err |-> TRUE, started |-> FALSE]
        ELSE
        LET raw == enableRawMode(t, d1)
            out == <<AlternateScreen, HideCursor, ClearScreen>>
        IN  IF raw.err
            THEN [term |-> raw.term, tty |-> raw.tty, out |-> sz.out,
                  err |-> TRUE, started |-> FALSE]
            ELSE
            [term |-> [raw.term EXCEPT
                          !.width = sz.w, !.height = sz.h,
                          !.buffer = initBuffer(sz.w, sz.h),
                          !.backBuffer = initBuffer(sz.w, sz.h),
                          !.eventQueue = <<>>, !.queueCap = QueueCap,
                          !.initialized = TRUE, !.isRaw = TRUE,
                          !.currentFg = 7, !.currentBg = 0,
                          !.cursorVisible = TRUE, !.cursorStyle = CursorBlock,
                          !.escDelay = 25],
             tty  |-> TtyApply(raw.tty, out),
             out  |-> sz.out \o out, err |-> FALSE, started |-> TRUE]

\* Close that gives up when the attributes cannot be restored
CloseStuck(t, d) ==
    IF ~t.initialized THEN [term |-> t, tty |-> d, out |-> <<>>, err |-> FALSE]
    ELSE
    LET out == (IF t.mouseEnabled THEN <<Tok("MOUSE", 0, 0, "")>> ELSE <<>>)
               \o (IF t.pasteEnabled THEN <<Tok("PASTE", 0, 0, "")>> ELSE <<>>)
               \o <<ShowCursor, NormalScreen, ResetColor>>
        cooked == disableRawMode(t, TtyApply(d, out))
    IN  [term |-> IF cooked.err THEN t
                  ELSE [t EXCEPT !.initialized = FALSE, !.isRaw = FALSE],
         tty  |-> cooked.tty,
         out  |-> out, err |-> cooked.err]

\* Close: [term, tty, out, err]
Close(t, d) ==
    IF ~t.initialized THEN [term |-> t, tty |-> d, out |-> <<>>, err |-> FALSE]
    ELSE
    LET out == (IF t.mouseEnabled THEN <<Tok("MOUSE", 0, 0, "")>> ELSE <<>>)
               \o (IF t.pasteEnabled THEN <<Tok("PASTE", 0, 0, "")>> ELSE <<>>)
               \o <<ShowCursor, NormalScreen, ResetColor>>
        cooked == disableRawMode(t, TtyApply(d, out))
    IN  [term |-> [t EXCEPT !.initialized = FALSE, !.isRaw = FALSE],
         tty  |-> cooked.tty,
         out  |-> out, err |-> cooked.err]

\* Suspend up to the stop signal it raises
Suspend(t, d) ==
    IF ~t.initialized THEN [term |-> t, tty |-> d, out |-> <<>>]
    ELSE
    LET out == <<ClearScreen, ShowCursor, NormalScreen>>
    IN  [term |-> [t EXCEPT !.isRaw = FALSE],
         tty  |-> TtyApply(disableRawMode(t, d).tty, out),
         out  |-> out]

\* Resume that forgets the raw flag
ResumeNoFlag(t, d) ==
    IF ~t.initialized THEN [term |-> t, tty |-> d, out |-> <<>>]
    ELSE
    LET raw == enableRawMode(t, d)
        out == <<AlternateScreen>>
               \o (IF ~t.cursorVisible THEN <<HideCursor>> ELSE <<>>)
               \o <<ClearScreen>>
    IN  [term |-> [raw.term EXCEPT
                      !.buffer.Cells = [y \in DOMAIN @ |-> [x \in DOMAIN @[y] |->
                          IF y < t.height /\ x < t.width
                          THEN [@[y][x] EXCEPT !.Dirty = TRUE] ELSE @[y][x]]]],
         tty  |-> TtyApply(raw.tty, out),
         out  |-> out]

Resume(t, d) ==
    IF ~t.initialized THEN [term |-> t, tty |-> d, out |-> <<>>]
    ELSE
    LET raw == enableRawMode(t, d)
        out == <<AlternateScreen>>
               \o (IF ~t.cursorVisible THEN <<HideCursor>> ELSE <<>>)
               \o <<ClearScreen>>
    IN  [term |-> [raw.term EXCEPT
                      !.isRaw = TRUE,
                      !.buffer.Cells = [y \in DOMAIN @ |-> [x \in DOMAIN @[y] |->
                          IF y < t.height /\ x < t.width
                          THEN [@[y][x] EXCEPT !.Dirty = TRUE] ELSE @[y][x]]]],
         tty  |-> TtyApply(raw.tty, out),
         out  |-> out]

\* Event{Type: EventResize}
EventResize == [ZeroEvent EXCEPT !.Type = "EventResize"]

\* the body of handleSigwinch's loop that keeps the old back buffer
handleSigwinchKeepBack(t, d) ==
    LET sz == getTermSize(d)
        d1 == [TtyApply(d, sz.out) EXCEPT !.stdin = sz.stdin]
    IN  IF ~sz.err /\ (sz.w # t.width \/ sz.h # t.height)
        THEN [term |-> [t EXCEPT
                          !.width = sz.w, !.height = sz.h,
                          !.buffer = initBuffer(sz.w, sz.h),
                          !.eventQueue = IF Len(@) < t.queueCap
                                         THEN Append(@, EventResize) ELSE @],
              tty |-> d1, out |-> sz.out]
        ELSE [term |-> t, tty |-> d1, out |-> sz.out]

\* the body of handleSigwinch's loop, for one notification
handleSigwinch(t, d) ==
    LET sz == getTermSize(d)
        d1 == [TtyApply(d, sz.out) EXCEPT !.stdin = sz.stdin]
    IN  IF ~sz.err /\ (sz.w # t.width \/ sz.h # t.height)
        THEN [term |-> [t EXCEPT
                          !.width = sz.w, !.height = sz.h,
                          !.buffer = initBuffer(sz.w, sz.h),
                          !.backBuffer = initBuffer(sz.w, sz.h),
                          !.eventQueue = IF Len(@) < t.queueCap
                                         THEN Append(@, EventResize) ELSE @],
              tty |-> d1, out |-> sz.out]
        ELSE [term |-> t, tty |-> d1, out |-> sz.out]

\* syscall.Read(stdin, buf[:]) with a 16-byte buffer and input waiting: the
\* bytes it returns and the device with these consumed
ReadStdin(d) ==
    LET n == Min(16, Len(d.stdin))
    IN  [buf |-> SubSeq(d.stdin, 1, n),
         tty |-> [d EXCEPT !.stdin = SubSeq(@, n + 1, Len(@))]]

\* PollEvent that returns the oldest queued event and leaves it queued
PollEventKeep(t, d) ==
    IF Len(t.eventQueue) > 0
    THEN [term |-> t, tty |-> d, evt |-> Head(t.eventQueue), err |-> ""]
    ELSE LET rd == ReadStdin(d)
             r  == parseInput(rd.buf)
         IN  [term |-> t, tty |-> rd.tty, evt |-> r.evt, err |-> r.err]

\* PollEvent: [term, tty, evt, err].  With an event queued: evt := q[0];
\* q = q[1:], which also takes one off the capacity of the slice.  Else it
\* reads stdin (the caller sees it return once input is there) and decodes.
PollEvent(t, d) ==
    IF Len(t.eventQueue) > 0
    THEN [term |-> [t EXCEPT !.eventQueue = Tail(@), !.queueCap = @ - 1],
          tty  |-> d, evt |-> Head(t.eventQueue), err |-> ""]
    ELSE LET rd == ReadStdin(d)
             r  == parseInput(rd.buf)
         IN  [term |-> t, tty |-> rd.tty, evt |-> r.evt, err |-> r.err]

\* GoDiv's remainder: a % b of Go
GoRem(a, b) == a - b * GoDiv(a, b)

\* the syscall.Timeval PollEventTimeout builds from a time.Duration (in ns)
Timeval(timeout) ==
    [Sec  |-> GoDiv(timeout, 1000000000),
     Usec |-> GoDiv(GoRem(timeout, 1000000000), 1000)]

\* select(2) rejects a negative timeout with EINVAL
SelectFails(tv) == tv.Sec < 0 \/ tv.Usec < 0

\* PollEventTimeout that waits although an event is queued
PollEventTimeoutNoDrain(t, d, timeout) ==
    IF SelectFails(Timeval(timeout))
    THEN [term |-> t, tty |-> d, evt |-> ZeroEvent, err |-> "EINVAL", wait |-> FALSE]
    ELSE [term |-> t, tty |-> d, evt |-> ZeroEvent, err |-> "", wait |-> TRUE]

\* PollEventTimeout up to its select: [term, tty, evt, err, wait]; wait says
\* the caller is now in select
PollEventTimeout(t, d, timeout) ==
    IF Len(t.eventQueue) > 0
    THEN [term |-> [t EXCEPT !.eventQueue = Tail(@), !.queueCap = @ - 1],
          tty  |-> d, evt |-> Head(t.eventQueue), err |-> "", wait |-> FALSE]
    ELSE IF SelectFails(Timeval(timeout))
    THEN [term |-> t, tty |-> d, evt |-> ZeroEvent, err |-> "EINVAL", wait |-> FALSE]
    ELSE [term |-> t, tty |-> d, evt |-> ZeroEvent, err |-> "", wait |-> TRUE]

\* PollEventTimeout from the return of select: n = 0 when the time ran out
\* with nothing to read, else PollEvent()
AfterSelect(t, d) ==
    IF Len(d.stdin) = 0
    THEN [term |-> t, tty |-> d, evt |-> ZeroEvent, err |-> "timeout"]
    ELSE PollEvent(t, d)

----------------------------------------------------------------------------
(* Initial state: the zero Terminal of a process on a cooked terminal      *)

ZeroTermios == [Lflag |-> {}, Iflag |-> {}, Opost |-> FALSE, Cs8 |-> FALSE,
                Vmin |-> 0, Vtime |-> 0]

ZeroTerminal ==
    [origTermios |-> ZeroTermios,
     buffer |-> [Width |-> 0, Height |-> 0, Cells |-> <<>>],
     backBuffer |-> [Width |-> 0, Height |-> 0, Cells |-> <<>>],
     savedBuffer |-> [isNil |-> TRUE, cells |-> <<>>],
     width |-> 0, height |-> 0,
     initialized |-> FALSE, isRaw |-> FALSE,
     mouseEnabled |-> FALSE, pasteEnabled |-> FALSE,
     eventQueue |-> <<>>, queueCap |-> 0,
     currentFg |-> 0, currentBg |-> 0,
     currentBold |-> FALSE, currentItalic |-> FALSE,
     currentUnder |-> FALSE, currentRev |-> FALSE,
     cursorX |-> 0, cursorY |-> 0, cursorVisible |-> FALSE,
     cursorStyle |-> 0, escDelay |-> 0]

StartTty ==
    [attrs |-> CookedTermios,
     winW |-> InitSize[1], winH |-> InitSize[2],
     alt |-> FALSE, cursorOn |-> TRUE,
     screen |-> ErasedScreen(InitSize[1], InitSize[2]),
     row |-> 1, col |-> 1, sgr |-> ResetSgr,
     envCols |-> 0, envLines |-> 0, ioctlOk |-> TRUE, replies |-> "report",
     getErr |-> FALSE, setErr |-> FALSE, stdin |-> <<>>, slow |-> FALSE,
     mouseOn |-> FALSE, pasteOn |-> FALSE]

\* handleSigwinch waits for a notification at the top of its loop
ListenerWaits == [at |-> "receive", width |-> 0, height |-> 0]

NoInk == <<"", 0, 0>>
NoSnap == <<>>

\* the operations remembered as the one before the last
Tracked(op) == IF op \in {"Present", "Resume", "Suspend"} THEN op ELSE "other"

Note(op, x, y, ink, snap) ==
    [op |-> op, prev |-> Tracked(last.op), x |-> x, y |-> y, ink |-> ink,
     snap |-> snap]

Zero ==
    /\ term = ZeroTerminal
    /\ tty = StartTty
    /\ written = <<>>
    /\ sigwinch = FALSE
    /\ sigcont = FALSE
    /\ panicked = FALSE
    /\ ops = 0
    /\ pc = "idle"
    /\ listener = ListenerWaits
    /\ last = [op |-> "start", prev |-> "other", x |-> 0, y |-> 0,
               ink |-> NoInk, snap |-> NoSnap]

----------------------------------------------------------------------------
(* Actions: one per call of the API, per listener and per notification     *)

\* one more operation, within the budget of Spec
Tick == ops < MaxOps /\ ops' = ops + 1

Pen(t) == <<t.currentFg, t.currentBg, t.currentBold, t.currentItalic,
            t.currentUnder, t.currentRev>>

\* Init; last.x = 1 when it returned an error
RunInit ==
    /\ ~panicked
    /\ LET r == Init(term, tty)
       IN  /\ term' = r.term
           /\ tty' = r.tty
           /\ written' = r.out
           /\ sigwinch' = (IF r.started THEN FALSE ELSE sigwinch)
           /\ sigcont' = (IF r.started THEN FALSE ELSE sigcont)
           /\ last' = Note("Init", IF r.err THEN 1 ELSE 0, 0, NoInk, NoSnap)
    /\ UNCHANGED <<panicked, pc, listener>>

CallInit == Tick /\ RunInit

\* Close; last.x = 1 when it returned an error, last.y = 1 when the session
\* was initialized
RunClose ==
    /\ ~panicked
    /\ LET r == Close(term, tty)
       IN  /\ term' = r.term
           /\ tty' = r.tty
           /\ written' = r.out
           /\ last' = Note("Close", IF r.err THEN 1 ELSE 0,
                            IF term.initialized THEN 1 ELSE 0, NoInk, NoSnap)
    /\ UNCHANGED <<sigwinch, sigcont, panicked, pc, listener>>

CallClose == Tick /\ RunClose

CallSetCell ==
    /\ Tick
    /\ ~panicked /\ term.initialized
    /\ \E p \in Points, ink \in Inks :
          /\ term' = SetCell(term, p[1], p[2], ink[1], ink[2], ink[3])
          /\ last' = Note("SetCell", p[1], p[2], ink,
                           <<term.currentBold, term.currentItalic,
                             term.currentUnder, term.currentRev>>)
    /\ written' = <<>>
    /\ UNCHANGED <<tty, sigwinch, sigcont, panicked, pc, listener>>

CallSetAttr ==
    /\ Tick
    /\ ~panicked /\ term.initialized
    /\ \E a \in Attrs : term' = SetAttr(term, a[1], a[2], a[3], a[4])
    /\ written' = <<>>
    /\ last' = Note("SetAttr", 0, 0, NoInk, NoSnap)
    /\ UNCHANGED <<tty, sigwinch, sigcont, panicked, pc, listener>>

CallClear ==
    /\ Tick
    /\ ~panicked /\ term.initialized
    /\ term' = Clear(term)
    /\ written' = <<>>
    /\ last' = Note("Clear", 0, 0, NoInk, NoSnap)
    /\ UNCHANGED <<tty, sigwinch, sigcont, panicked, pc, listener>>

CallScroll ==
    /\ Tick
    /\ ~panicked /\ term.initialized
    /\ \E lines \in ScrollArgs :
          LET r == Scroll(term, lines)
          IN  /\ term' = r.term
              /\ panicked' = r.panic
              /\ last' = Note("Scroll", lines, 0, NoInk, NoSnap)
    /\ written' = <<>>
    /\ UNCHANGED <<tty, sigwinch, sigcont, pc, listener>>

CallSaveBuffer ==
    /\ Tick
    /\ ~panicked /\ term.initialized
    /\ term' = SaveBuffer(term)
    /\ written' = <<>>
    /\ last' = Note("SaveBuffer", 0, 0, NoInk, NoSnap)
    /\ UNCHANGED <<tty, sigwinch, sigcont, panicked, pc, listener>>

CallRestoreBuffer ==
    /\ Tick
    /\ ~panicked /\ term.initialized
    /\ term' = RestoreBuffer(term)
    /\ written' = <<>>
    /\ last' = Note("RestoreBuffer", 0, 0, NoInk, NoSnap)
    /\ UNCHANGED <<tty, sigwinch, sigcont, panicked, pc, listener>>

CallPresent ==
    /\ Tick
    /\ ~panicked /\ term.initialized
    /\ LET r == Present(term)
       IN  /\ term' = r.term
           /\ written' = r.out
           /\ tty' = TtyApply(tty, r.out)
           /\ panicked' = r.panic
    /\ last' = Note("Present", 0, 0, NoInk, NoSnap)
    /\ UNCHANGED <<sigwinch, sigcont, pc, listener>>

\* Suspend, until the process stops itself
RunSuspend ==
    /\ ~panicked /\ term.initialized
    /\ LET r == Suspend(term, tty)
       IN  /\ term' = r.term
           /\ tty' = r.tty
           /\ written' = r.out
    /\ last' = Note("Suspend", 0, 0, NoInk, <<term.width, term.height, Pen(term)>>)
    /\ UNCHANGED <<sigwinch, sigcont, panicked, pc, listener>>

CallSuspend == Tick /\ RunSuspend

\* whether Suspend was the last operation of the program (a continue
\* notification may have arrived since)
AfterSuspend == last.op = "Suspend" \/ (last.op = "SIGCONT" /\ last.prev = "Suspend")

ResumeStep ==
    /\ LET r == Resume(term, tty)
       IN  /\ term' = r.term
           /\ tty' = r.tty
           /\ written' = r.out
    /\ last' = [op |-> "Resume",
                prev |-> IF AfterSuspend THEN "Suspend" ELSE Tracked(last.op),
                x |-> 0, y |-> 0, ink |-> NoInk,
                snap |-> IF AfterSuspend THEN last.snap ELSE NoSnap]

\* Resume called by the program
RunResume ==
    /\ ~panicked /\ term.initialized
    /\ ResumeStep
    /\ UNCHANGED <<sigwinch, sigcont, panicked, pc, listener>>

CallResume == Tick /\ RunResume

\* the process receives SIGCONT; the channel buffers one notification
RunSigcont ==
    /\ ~panicked /\ term.initialized /\ ~sigcont
    /\ sigcont' = TRUE
    /\ last' = [last EXCEPT !.op = "SIGCONT", !.prev = Tracked(last.op)]
    /\ UNCHANGED <<term, tty, written, sigwinch, panicked, pc, listener>>

Sigcont == Tick /\ RunSigcont

\* handleSigcont takes the notification and runs Resume
RunHandleSigcont ==
    /\ ~panicked /\ sigcont
    /\ sigcont' = FALSE
    /\ ResumeStep
    /\ UNCHANGED <<sigwinch, panicked, pc, listener>>

ListenSigcont == Tick /\ RunHandleSigcont

\* the window takes another size and the process receives SIGWINCH
WindowChangeTo(sz) ==
    /\ ~panicked /\ term.initialized
    /\ sz # <<tty.winW, tty.winH>>
    /\ tty' = TtyResize(tty, sz[1], sz[2])
    /\ sigwinch' = TRUE
    /\ written' = <<>>
    /\ last' = Note("SIGWINCH", sz[1], sz[2], NoInk, NoSnap)
    /\ UNCHANGED <<term, sigcont, panicked, pc, listener>>

WindowChange ==
    /\ Tick
    /\ \E sz \in Sizes : WindowChangeTo(sz)

\* handleSigwinch takes the notification
RunHandleSigwinch ==
    /\ ~panicked /\ sigwinch
    /\ sigwinch' = FALSE
    /\ LET r == handleSigwinch(term, tty)
       IN  /\ term' = r.term
           /\ tty' = r.tty
           /\ written' = r.out
    /\ last' = Note("handleSigwinch", Len(term.eventQueue),
                     IF <<tty.winW, tty.winH>> # <<term.width, term.height>>
                     THEN 1 ELSE 0, NoInk, NoSnap)
    /\ UNCHANGED <<sigcont, panicked, pc, listener>>

ListenSigwinch == Tick /\ RunHandleSigwinch

\* PollEvent, when it returns: an event is queued or stdin has input (else
\* it blocks in read); last.x = the queue length it met, last.snap = what it
\* returned
RunPollEvent ==
    /\ ~panicked /\ term.initialized /\ pc = "idle"
    /\ (Len(term.eventQueue) > 0 \/ Len(tty.stdin) > 0)
    /\ LET r == PollEvent(term, tty)
       IN  /\ term' = r.term
           /\ tty' = r.tty
           /\ last' = Note("PollEvent", Len(term.eventQueue), 0, NoInk,
                            <<r.evt, r.err>>)
    /\ written' = <<>>
    /\ UNCHANGED <<sigwinch, sigcont, panicked, pc, listener>>

CallPollEvent == Tick /\ RunPollEvent

Next ==
    \/ CallInit
    \/ CallClose
    \/ CallSetCell
    \/ CallSetAttr
    \/ CallClear
    \/ CallScroll
    \/ CallSaveBuffer
    \/ CallRestoreBuffer
    \/ CallPresent
    \/ CallSuspend
    \/ CallResume
    \/ Sigcont
    \/ ListenSigcont
    \/ WindowChange
    \/ ListenSigwinch
    \/ CallPollEvent

Spec == Zero /\ [][Next]_vars

----------------------------------------------------------------------------
(* SpecQueue: the resize listener and the event queue at its real capacity. *)
(* The program has called Init, and may have drawn and presented one cell;  *)
(* from then on the window changes, the listener runs and the caller polls. *)

Started ==
    LET r == Init(ZeroTerminal, StartTty)
        drawn == Present(SetCell(r.term, 0, 0, "A", 1, 0))
    IN  /\ \/ /\ term = r.term
              /\ tty = r.tty
           \/ /\ term = drawn.term
              /\ tty = TtyApply(r.tty, drawn.out)
        /\ written = <<>>
        /\ sigwinch = FALSE
        /\ sigcont = FALSE
        /\ panicked = FALSE
        /\ ops = 0
        /\ pc = "idle"
        /\ listener = ListenerWaits
        /\ last = [op |-> "Init", prev |-> "other", x |-> 0, y |-> 0,
                   ink |-> NoInk, snap |-> NoSnap]

QueueWindowChange == UNCHANGED ops /\ \E sz \in Sizes : WindowChangeTo(sz)

QueueListen == UNCHANGED ops /\ RunHandleSigwinch

QueuePoll == UNCHANGED ops /\ RunPollEvent

NextQueue ==
    \/ QueueWindowChange
    \/ QueueListen
    \/ QueuePoll

SpecQueue == Started /\ [][NextQueue]_vars

----------------------------------------------------------------------------
(* SpecDraw: the drawing helpers and Scroll on a 2 x 2 grid, with integer   *)
(* arguments below, inside and beyond the grid.                             *)

\* drawing calls explored by SpecDraw
MaxDraws == 2

DrawSize == <<2, 2>>
DrawPos == {-1, 0, 1}
DrawExt == {-1, 0, 2, 3}
DrawRows == {-1, 0, 1, 2}
Texts == {<<"A">>, <<"U+00E9", "B">>, <<"A", "B", "A">>}
Colors == {<<7, 0>>, <<1, 4>>}

DrawTty ==
    [StartTty EXCEPT !.winW = DrawSize[1], !.winH = DrawSize[2],
                     !.screen = ErasedScreen(DrawSize[1], DrawSize[2])]

StartedDraw ==
    LET r == Init(ZeroTerminal, DrawTty)
    IN  /\ term = r.term
        /\ tty = r.tty
        /\ written = <<>>
        /\ sigwinch = FALSE
        /\ sigcont = FALSE
        /\ panicked = FALSE
        /\ ops = 0
        /\ pc = "idle"
        /\ listener = ListenerWaits
        /\ last = [op |-> "Init", prev |-> "other", x |-> 0, y |-> 0,
                   ink |-> NoInk, snap |-> NoSnap]

\* a drawing call, with first argument arg, that leaves session t2
Drawn(op, arg, t2) ==
    /\ ~panicked /\ term.initialized
    /\ ops < MaxDraws /\ ops' = ops + 1
    /\ term' = t2
    /\ written' = <<>>
    /\ last' = Note(op, arg, 0, NoInk, NoSnap)
    /\ UNCHANGED <<tty, sigwinch, sigcont, pc, listener>>

DrawFill ==
    /\ \E x \in DrawPos, y \in DrawPos, w \in DrawExt, h \in DrawExt :
          Drawn("Fill", x, Fill(term, x, y, w, h, "A"))
    /\ UNCHANGED panicked

DrawPrintAt ==
    /\ \E x \in DrawPos, y \in DrawRows, text \in Texts :
          Drawn("PrintAt", x, PrintAt(term, x, y, text))
    /\ UNCHANGED panicked

DrawBox ==
    /\ \E x \in DrawPos, y \in DrawPos, w \in DrawExt, h \in DrawExt :
          Drawn("Box", x, Box(term, x, y, w, h))
    /\ UNCHANGED panicked

DrawHLine ==
    /\ \E x \in DrawPos, y \in DrawRows, n \in DrawExt :
          Drawn("HLine", x, HLine(term, x, y, n, "B"))
    /\ UNCHANGED panicked

DrawVLine ==
    /\ \E x \in DrawRows, y \in DrawPos, n \in DrawExt :
          Drawn("VLine", x, VLine(term, x, y, n, "B"))
    /\ UNCHANGED panicked

DrawClearRect ==
    /\ \E x \in DrawPos, y \in DrawPos, w \in DrawExt, h \in DrawExt :
          Drawn("ClearRect", x, ClearRect(term, x, y, w, h))
    /\ UNCHANGED panicked

DrawClearRegion ==
    /\ \E x \in DrawPos, y \in DrawPos, w \in DrawExt, h \in DrawExt :
          Drawn("ClearRegion", x, ClearRegion(term, x, y, w, h))
    /\ UNCHANGED panicked

DrawClearLine ==
    /\ \E y \in DrawRows : Drawn("ClearLine", y, ClearLine(term, y))
    /\ UNCHANGED panicked

DrawTextLeftCall ==
    /\ \E y \in DrawRows, text \in Texts, c \in Colors :
          Drawn("DrawTextLeft", y, DrawTextLeft(term, y, text, c[1], c[2]))
    /\ UNCHANGED panicked

DrawTextCenterCall ==
    /\ \E y \in DrawRows, text \in Texts, c \in Colors :
          Drawn("DrawTextCenter", y, DrawTextCenter(term, y, text, c[1], c[2]))
    /\ UNCHANGED panicked

DrawTextRightCall ==
    /\ \E y \in DrawRows, text \in Texts, c \in Colors :
          Drawn("DrawTextRight", y, DrawTextRight(term, y, text, c[1], c[2]))
    /\ UNCHANGED panicked

DrawScroll ==
    \E lines \in ScrollArgs :
        LET r == Scroll(term, lines)
        IN  /\ Drawn("Scroll", lines, r.term)
            /\ panicked' = r.panic

DrawSetColor ==
    /\ \E c \in Colors : Drawn("SetColor", c[1], SetColor(term, c[1], c[2]))
    /\ UNCHANGED panicked

DrawSetAttr ==
    /\ \E a \in Attrs : Drawn("SetAttr", 0, SetAttr(term, a[1], a[2], a[3], a[4]))
    /\ UNCHANGED panicked

NextDraw ==
    \/ DrawFill
    \/ DrawPrintAt
    \/ DrawBox
    \/ DrawHLine
    \/ DrawVLine
    \/ DrawClearRect
    \/ DrawClearRegion
    \/ DrawClearLine
    \/ DrawTextLeftCall
    \/ DrawTextCenterCall
    \/ DrawTextRightCall
    \/ DrawScroll
    \/ DrawSetColor
    \/ DrawSetAttr

SpecDraw == StartedDraw /\ [][NextDraw]_vars

----------------------------------------------------------------------------
(* Claims                                                                  *)

\* the cells of the grid of session t, as (y, x)
GridCells(t) == {c \in (0 .. t.height - 1) \X (0 .. t.width - 1) :
                    HasCell(t.buffer.Cells, c[1], c[2])}

Front(c) == term.buffer.Cells[c[1]][c[2]]
Back(c)  == term.backBuffer.Cells[c[1]][c[2]]

\* number of glyphs in a write
RECURSIVE GlyphCount(_)
GlyphCount(toks) ==
    IF toks = <<>> THEN 0
    ELSE (IF Head(toks).op = "CH" THEN 1 ELSE 0) + GlyphCount(Tail(toks))

OutOfBounds(x, y, t) == x < 0 \/ x >= t.width \/ y < 0 \/ y >= t.height

\* C1: of two consecutive Present() calls on an initialized session, with
\* nothing in between, the second writes no byte.
C1_SecondPresentSilent ==
    (term.initialized /\ last.op = "Present" /\ last.prev = "Present")
        => written = <<>>

\* C2: the Present that follows Resume() on an initialized session emits the
\* glyph of every cell of the grid, also of cells equal to their back-buffer
\* cell.
C2_PresentAfterResumeRedrawsAll ==
    (term.initialized /\ last.op = "Present" /\ last.prev = "Resume")
        => GlyphCount(written) = term.width * term.height

C4_DirtyWhereDifferent ==
    /\ [](\A c \in GridCells(term) :
            /\ HasCell(term.backBuffer.Cells, c[1], c[2])
            /\ (~SameCell(Front(c), Back(c)) => Front(c).Dirty))
    /\ [][\A c \in GridCells(term) :
            (/\ HasCell(term'.buffer.Cells, c[1], c[2])
             /\ Front(c).Dirty
             /\ ~term'.buffer.Cells[c[1]][c[2]].Dirty) => last'.op = "Present"]_vars

C4_Witness ==
    /\ last.op = "RestoreBuffer"
    /\ \E c \in GridCells(term) :
          /\ ~SameCell(Front(c), Back(c))
          /\ Front(c).Dirty
          /\ HasCell(term.savedBuffer.cells, c[1], c[2])
          /\ ~term.savedBuffer.cells[c[1]][c[2]].Dirty

\* C5: the back-buffer cell at each coordinate equals what the bytes written
\* so far have left on the screen at that coordinate.
C5_BackMirrorsScreen ==
    (term.initialized /\ tty.alt /\ ~sigwinch)
        => \A c \in GridCells(term) :
              (c[1] + 1 <= tty.winH /\ c[2] + 1 <= tty.winW)
                  => SameCell(Back(c), tty.screen[c[1] + 1][c[2] + 1])

\* C8: after SetCell(x,y,ch,fg,bg) with (x,y) inside the grid, GetCell(x,y)
\* returns (ch,fg,bg) and the cell carries the pen attributes of the time of
\* the call.
C8_SetCellGetCell ==
    (last.op = "SetCell" /\ ~OutOfBounds(last.x, last.y, term))
        => /\ GetCell(term, last.x, last.y) = last.ink
           /\ LET cell == term.buffer.Cells[last.y][last.x]
              IN  <<cell.Bold, cell.Italic, cell.Under, cell.Rev>> = last.snap

C8_Witness ==
    /\ last.op = "SetCell" /\ ~OutOfBounds(last.x, last.y, term)
    /\ last.ink = <<"A", 1, 0>>
    /\ last.snap[1]
    /\ term.currentFg # 1

\* C9: SetCell outside the grid changes neither grid (no cell, no dirty
\* flag), nor the pen, nor the event queue.
C9_SetCellOutsideIsNoop ==
    [][(last'.op = "SetCell" /\ OutOfBounds(last'.x, last'.y, term))
          => /\ term'.buffer = term.buffer
             /\ term'.backBuffer = term.backBuffer
             /\ Pen(term') = Pen(term)
             /\ term'.eventQueue = term.eventQueue]_vars

C9_Witness ==
    /\ last.op = "SetCell" /\ OutOfBounds(last.x, last.y, term)
    /\ last.x < 0
    /\ \E c \in GridCells(term) : Front(c).Ch = "A"

DrawOps == {"Fill", "PrintAt", "Box", "HLine", "VLine", "ClearRect",
            "ClearRegion", "ClearLine", "DrawTextLeft", "DrawTextCenter",
            "DrawTextRight", "Scroll"}

\* C10: whatever their integer arguments, Fill, PrintAt, Box, HLine, VLine,
\* ClearRect, ClearRegion, ClearLine, DrawTextLeft/Center/Right and Scroll
\* complete without indexing a row or column outside the grid, and leave a
\* grid of the same rows and columns.
C10_DrawingNeverFails ==
    last.op \in DrawOps
        => /\ ~panicked
           /\ DOMAIN term.buffer.Cells = 0 .. term.height - 1
           /\ \A y \in DOMAIN term.buffer.Cells :
                 DOMAIN term.buffer.Cells[y] = 0 .. term.width - 1

----------------------------------------------------------------------------
(* Claims about the resize listener and the queue, under SpecQueue         *)

AllDirtyBlank(buf, w, h) ==
    /\ buf.Width = w /\ buf.Height = h
    /\ DOMAIN buf.Cells = 0 .. h - 1
    /\ \A y \in 0 .. h - 1 :
          /\ DOMAIN buf.Cells[y] = 0 .. w - 1
          /\ \A x \in 0 .. w - 1 : buf.Cells[y][x].Dirty

\* the listener handled a notification in this step, and found the size
\* changed (the size it discovers is the window's)
ResizeHandled ==
    /\ last'.op = "handleSigwinch"
    /\ <<tty.winW, tty.winH>> # <<term.width, term.height>>

SameSizeHandled ==
    /\ last'.op = "handleSigwinch"
    /\ <<tty.winW, tty.winH>> = <<term.width, term.height>>

ResizeEffect ==
    /\ term'.width = tty.winW /\ term'.height = tty.winH
    /\ AllDirtyBlank(term'.buffer, tty.winW, tty.winH)
    /\ AllDirtyBlank(term'.backBuffer, tty.winW, tty.winH)

\* C6 as claimed: a handled size change replaces dimensions and grids and
\* appends exactly one resize event; an unchanged size changes nothing.
C6_ResizeAppendsOne ==
    [][/\ ResizeHandled =>
            /\ ResizeEffect
            /\ term'.eventQueue = Append(term.eventQueue, EventResize)
       /\ SameSizeHandled =>
            /\ <<term'.width, term'.height>> = <<term.width, term.height>>
            /\ term'.buffer = term.buffer
            /\ term'.backBuffer = term.backBuffer
            /\ term'.eventQueue = term.eventQueue]_vars

\* C6 amended: a handled size change replaces dimensions and grids (every
\* cell dirty) and appends one resize event if the queue is shorter than its
\* capacity, none otherwise; an unchanged size changes nothing.
C6_ResizeAppendsIfRoom ==
    [][/\ ResizeHandled =>
            /\ ResizeEffect
            /\ term'.eventQueue =
                  IF Len(term.eventQueue) < term.queueCap
                  THEN Append(term.eventQueue, EventResize)
                  ELSE term.eventQueue
       /\ SameSizeHandled =>
            /\ <<term'.width, term'.height>> = <<term.width, term.height>>
            /\ term'.buffer = term.buffer
            /\ term'.backBuffer = term.backBuffer
            /\ term'.eventQueue = term.eventQueue]_vars

\* the listener found the size changed while the queue was full
C6_Witness ==
    /\ last.op = "handleSigwinch"
    /\ last.y = 1
    /\ last.x = QueueCap
    /\ Len(term.eventQueue) = QueueCap
    /\ \A c \in GridCells(term) : Front(c).Dirty /\ Back(c).Dirty

\* C7: the queue keeps its capacity of 256: a resize event for a size change
\* is enqueued whenever fewer than 256 events are queued.
C7_CapacityStays256 ==
    [][(ResizeHandled /\ Len(term.eventQueue) < QueueCap)
          => term'.eventQueue = Append(term.eventQueue, EventResize)]_vars

----------------------------------------------------------------------------
(* SpecDiff: the diff renderer between two Presents.  The program has       *)
(* called Init and Present; from then on it draws with SetCell, SetAttr and *)
(* Clear and calls Present, and nothing else writes to the terminal, so the *)
(* device's screen is what the previous Present showed.                     *)

StartedDiff ==
    LET r == Init(ZeroTerminal, StartTty)
        p == Present(r.term)
    IN  /\ term = p.term
        /\ tty = TtyApply(r.tty, p.out)
        /\ written = p.out
        /\ sigwinch = FALSE
        /\ sigcont = FALSE
        /\ panicked = FALSE
        /\ ops = 0
        /\ pc = "idle"
        /\ listener = ListenerWaits
        /\ last = [op |-> "Present", prev |-> "other", x |-> 0, y |-> 0,
                   ink |-> NoInk, snap |-> NoSnap]

DiffSetCell ==
    /\ \E p \in Points, ink \in Inks :
          term' = SetCell(term, p[1], p[2], ink[1], ink[2], ink[3])
    /\ last' = Note("SetCell", 0, 0, NoInk, NoSnap)
    /\ written' = <<>>
    /\ UNCHANGED <<tty, sigwinch, sigcont, panicked, ops, pc, listener>>

DiffSetAttr ==
    /\ \E a \in Attrs : term' = SetAttr(term, a[1], a[2], a[3], a[4])
    /\ written' = <<>>
    /\ last' = Note("SetAttr", 0, 0, NoInk, NoSnap)
    /\ UNCHANGED <<tty, sigwinch, sigcont, panicked, ops, pc, listener>>

DiffClear ==
    /\ term' = Clear(term)
    /\ written' = <<>>
    /\ last' = Note("Clear", 0, 0, NoInk, NoSnap)
    /\ UNCHANGED <<tty, sigwinch, sigcont, panicked, ops, pc, listener>>

DiffPresent ==
    /\ LET r == Present(term)
       IN  /\ term' = r.term
           /\ written' = r.out
           /\ tty' = TtyApply(tty, r.out)
           /\ panicked' = r.panic
    /\ last' = Note("Present", 0, 0, NoInk, NoSnap)
    /\ UNCHANGED <<sigwinch, sigcont, ops, pc, listener>>

NextDiff ==
    \/ DiffSetCell
    \/ DiffSetAttr
    \/ DiffClear
    \/ DiffPresent

SpecDiff == StartedDiff /\ [][NextDiff]_vars

\* the cells (y, x) that receive a glyph from a write, the cursor being at
\* (row, col) before it
RECURSIVE GlyphCells(_, _, _)
GlyphCells(toks, row, col) ==
    IF toks = <<>> THEN {}
    ELSE LET tok == Head(toks)
         IN  IF tok.op = "CUP" THEN GlyphCells(Tail(toks), tok.n, tok.m)
             ELSE IF tok.op = "CH"
             THEN {<<row - 1, col - 1>>} \cup GlyphCells(Tail(toks), row, col + 1)
             ELSE GlyphCells(Tail(toks), row, col)

\* the cells of t whose value differs from what the screen of d shows
ChangedCells(t, d) ==
    {c \in GridCells(t) :
        ~SameCell(t.buffer.Cells[c[1]][c[2]], d.screen[c[1] + 1][c[2] + 1])}

\* C11: a Present that follows an earlier Present emits a glyph for exactly
\* the cells whose value the drawing calls in between (SetCell, SetAttr,
\* Clear) left different from what the earlier Present showed, and for no
\* other cell.
C11_OnlyChangedCellsEmitted ==
    [][last'.op = "Present"
          => GlyphCells(written', tty.row, tty.col) = ChangedCells(term, tty)]_vars

\* C12: Init() on an initialized session returns an error, leaves the whole
\* session, the terminal and the listeners as they were and writes nothing;
\* Init() called after Close() returns no error and initializes the session.
C12_SecondInitRefused ==
    [][last'.op = "Init" =>
          /\ term.initialized =>
                /\ last'.x = 1
                /\ term' = term /\ tty' = tty /\ written' = <<>>
                /\ sigwinch' = sigwinch /\ sigcont' = sigcont
          /\ (~term.initialized /\ last.op = "Close") =>
                /\ last'.x = 0
                /\ term'.initialized /\ term'.isRaw]_vars

\* Init has just refused an initialized session
C12_Witness == last.op = "Init" /\ last.x = 1 /\ term.initialized

----------------------------------------------------------------------------
(* SpecLife: the life cycle of the session on terminals that may fail.      *)
(* The environment is chosen at the start: COLUMNS and LINES, whether the   *)
(* window-size ioctl works, how the terminal answers the cursor-position    *)
(* query, and whether the termios ioctls fail; the termios failures may     *)
(* come and go later.                                                       *)

\* (COLUMNS, LINES) as strconv.Atoi reads them: unset or unparsable is 0
Envs == {<<0, 0>>, <<3, 0>>, <<3, 2>>}

ZeroLife ==
    /\ term = ZeroTerminal
    /\ \E env \in Envs, ok \in BOOLEAN, reply \in Replies, ge \in BOOLEAN,
          se \in BOOLEAN :
          tty = [StartTty EXCEPT !.envCols = env[1], !.envLines = env[2],
                                 !.ioctlOk = ok, !.replies = reply,
                                 !.getErr = ge, !.setErr = se]
    /\ written = <<>>
    /\ sigwinch = FALSE
    /\ sigcont = FALSE
    /\ panicked = FALSE
    /\ ops = 0
    /\ pc = "idle"
    /\ listener = ListenerWaits
    /\ last = [op |-> "start", prev |-> "other", x |-> 0, y |-> 0,
               ink |-> NoInk, snap |-> NoSnap]

LifeInit == UNCHANGED ops /\ RunInit

LifeClose == UNCHANGED ops /\ RunClose

LifeSuspend == UNCHANGED ops /\ RunSuspend

LifeResume == UNCHANGED ops /\ RunResume

LifeSigcont == UNCHANGED ops /\ RunSigcont

LifeListenSigcont == UNCHANGED ops /\ RunHandleSigcont

\* the termios ioctls start or stop failing
LifeFault ==
    /\ \E ge \in BOOLEAN, se \in BOOLEAN :
          /\ <<ge, se>> # <<tty.getErr, tty.setErr>>
          /\ tty' = [tty EXCEPT !.getErr = ge, !.setErr = se]
    /\ written' = <<>>
    /\ last' = Note("fault", 0, 0, NoInk, NoSnap)
    /\ UNCHANGED <<term, sigwinch, sigcont, panicked, ops, pc, listener>>

NextLife ==
    \/ LifeInit
    \/ LifeClose
    \/ LifeSuspend
    \/ LifeResume
    \/ LifeSigcont
    \/ LifeListenSigcont
    \/ LifeFault

SpecLife == ZeroLife /\ [][NextLife]_vars

\* C13: when Init() on an uninitialized session returns an error, it has
\* written nothing to the terminal, the terminal attributes are as before,
\* the session is still uninitialized and no listener was started.
C13_FailedInitLeavesTerminalUntouched ==
    [][(last'.op = "Init" /\ last'.x = 1 /\ ~term.initialized) =>
          /\ written' = <<>>
          /\ tty'.attrs = tty.attrs
          /\ ~term'.initialized /\ ~term'.isRaw
          /\ sigwinch' = sigwinch /\ sigcont' = sigcont]_vars

\* the size getTermSize is to find on device d: COLUMNS x LINES when both
\* are positive, else the window size when the ioctl works, else the
\* reported cursor position, else 80 x 24
DiscoveredSize(d) ==
    IF d.envCols > 0 /\ d.envLines > 0 THEN <<d.envCols, d.envLines>>
    ELSE IF d.ioctlOk THEN <<d.winW, d.winH>>
    ELSE IF d.replies = "report" THEN <<d.winW, d.winH>>
    ELSE <<80, 24>>

\* C14: Init() on an uninitialized session whose termios ioctls work returns
\* no error, whatever the size discovery met, and the session has the size of
\* the first tier that answered, 80 x 24 when none did.
C14_SizeDiscoveryNeverFatal ==
    [][(last'.op = "Init" /\ ~term.initialized /\ ~tty.getErr /\ ~tty.setErr) =>
          /\ last'.x = 0
          /\ <<term'.width, term'.height>> = DiscoveredSize(tty)]_vars

\* C15: after a Close() that returned no error the terminal attributes are
\* those in effect before Init(), whatever Suspend calls, Resume calls and
\* continue notifications came in between.  (In Spec the first Init runs on
\* CookedTermios and no ioctl fails, so every session starts on
\* CookedTermios as long as every earlier session ended on it.)
C15_CloseRestoresAttributes ==
    (last.op = "Close" /\ last.x = 0 /\ last.y = 1) => tty.attrs = CookedTermios

\* C16: Close() on an initialized session leaves it not initialized and not
\* raw and returns an error exactly when restoring the attributes failed;
\* Close() on a session that is not initialized changes nothing, writes
\* nothing and returns no error.
C16_CloseAlwaysTearsDown ==
    [][last'.op = "Close" =>
          /\ term.initialized =>
                /\ ~term'.initialized /\ ~term'.isRaw
                /\ (last'.x = 1) = tty.setErr
          /\ ~term.initialized =>
                /\ term' = term /\ tty' = tty /\ written' = <<>>
                /\ last'.x = 0]_vars

\* Close has just failed to restore the attributes of an initialized session
C16_Witness ==
    /\ last.op = "Close" /\ last.x = 1 /\ last.y = 1
    /\ ~term.initialized /\ ~term.isRaw
    /\ tty.attrs # term.origTermios

----------------------------------------------------------------------------
(* SpecPoll: the caller polls, with and without a timeout, while the        *)
(* window changes, the resize listener enqueues and input arrives.          *)
(* SpecPollLive adds that a select with a timeout returns.                  *)

\* window changes explored by SpecPoll
MaxResizes == 3

\* what arrives on stdin in one burst: "a", and ESC [ A
PollChunks == {<<97>>, <<27, 91, 65>>}

\* the timeouts handed to PollEventTimeout, in nanoseconds: -1 ms, 0,
\* half a microsecond, a second and a half
Durations == {-1000000, 0, 500, 1500000000}

PollWindowChange ==
    /\ ops < MaxResizes /\ ops' = ops + 1
    /\ \E sz \in Sizes : WindowChangeTo(sz)

PollListen == UNCHANGED ops /\ RunHandleSigwinch

\* a burst of input reaches stdin
PollType ==
    /\ ~panicked /\ term.initialized
    /\ tty.stdin = <<>>
    /\ \E chunk \in PollChunks : tty' = [tty EXCEPT !.stdin = chunk]
    /\ written' = <<>>
    /\ last' = Note("input", 0, 0, NoInk, NoSnap)
    /\ UNCHANGED <<term, sigwinch, sigcont, panicked, ops, pc, listener>>

PollCall == UNCHANGED ops /\ RunPollEvent

\* the caller enters PollEventTimeout; last.x = the queue length it met,
\* last.y = the timeout, last.snap = what it returned if it did
PollTimeoutCall ==
    /\ ~panicked /\ term.initialized /\ pc = "idle"
    /\ \E timeout \in Durations :
          LET r == PollEventTimeout(term, tty, timeout)
          IN  /\ term' = r.term
              /\ tty' = r.tty
              /\ pc' = (IF r.wait THEN "select" ELSE "idle")
              /\ last' = Note(IF r.wait THEN "select" ELSE "PollEventTimeout",
                               Len(term.eventQueue), timeout, NoInk,
                               IF r.wait THEN NoSnap ELSE <<r.evt, r.err>>)
    /\ written' = <<>>
    /\ UNCHANGED <<sigwinch, sigcont, panicked, ops, listener>>

\* PollEventTimeout goes on from the return of select
SelectReturned ==
    /\ ~panicked /\ pc = "select"
    /\ LET r == AfterSelect(term, tty)
       IN  /\ term' = r.term
           /\ tty' = r.tty
           /\ last' = Note("PollEventTimeout", Len(term.eventQueue),
                            Len(tty.stdin), NoInk, <<r.evt, r.err>>)
    /\ pc' = "idle"
    /\ written' = <<>>
    /\ UNCHANGED <<sigwinch, sigcont, panicked, ops, listener>>

\* select returns 0: the time ran out with nothing to read
PollSelectExpires == tty.stdin = <<>> /\ SelectReturned

\* select returns 1: stdin is readable
PollSelectReady == tty.stdin # <<>> /\ SelectReturned

NextPoll ==
    \/ PollWindowChange
    \/ PollListen
    \/ PollType
    \/ PollCall
    \/ PollTimeoutCall
    \/ PollSelectExpires
    \/ PollSelectReady

StartedPoll ==
    LET r == Init(ZeroTerminal, StartTty)
    IN  /\ term = r.term
        /\ tty = r.tty
        /\ written = <<>>
        /\ sigwinch = FALSE
        /\ sigcont = FALSE
        /\ panicked = FALSE
        /\ ops = 0
        /\ pc = "idle"
        /\ listener = ListenerWaits
        /\ last = [op |-> "Init", prev |-> "other", x |-> 0, y |-> 0,
                   ink |-> NoInk, snap |-> NoSnap]

SpecPoll == StartedPoll /\ [][NextPoll]_vars

\* select(2) returns when the time has run out and when stdin is readable
SpecPollLive ==
    SpecPoll /\ WF_vars(PollSelectExpires) /\ WF_vars(PollSelectReady)

\* C17: PollEvent called with a non-empty queue returns the oldest queued
\* event, removes exactly that event and reads nothing from stdin; the
\* listener enqueues at the back, so a single polling thread gets the events
\* in the order they were enqueued.
C17_PollReturnsOldest ==
    [][/\ (last'.op = "PollEvent" /\ Len(term.eventQueue) > 0) =>
             /\ last'.snap = <<Head(term.eventQueue), "">>
             /\ term'.eventQueue = Tail(term.eventQueue)
             /\ tty' = tty
       /\ last'.op = "handleSigwinch" =>
             \/ term'.eventQueue = term.eventQueue
             \/ /\ Len(term'.eventQueue) = Len(term.eventQueue) + 1
                /\ SubSeq(term'.eventQueue, 1, Len(term.eventQueue))
                      = term.eventQueue]_vars

\* PollEvent met two queued events and input waiting on stdin, and left
\* the input where it was
C17_Witness ==
    /\ last.op = "PollEvent" /\ last.x >= 2
    /\ last.snap = <<EventResize, "">>
    /\ Len(term.eventQueue) = last.x - 1
    /\ tty.stdin # <<>>

\* the caller enters PollEventTimeout in this step
EntersPollEventTimeout ==
    pc = "idle" /\ last'.op \in {"select", "PollEventTimeout"}

----------------------------------------------------------------------------
(* SpecDecode: SGR mouse reports reach stdin one at a time and the caller   *)
(* polls them, on a session of InitSize.                                    *)

\* ESC [ < b ; x ; y T
SgrChunk(b, x, y, T) ==
    <<27, 91, 60>> \o Digits(b) \o <<59>> \o Digits(x) \o <<59>> \o Digits(y)
                   \o <<T>>

\* button codes: the three buttons, with a modifier, while moving, the wheel
SgrButtons == {0, 1, 2, 3, 4, 5, 6, 32, 34, 64, 65, 66, 67}

\* 1-based column and row numbers a terminal reports, and 0
SgrCoords == {0, 1, 2, 5, 10}

\* 'M' for a press, 'm' for a release
SgrFinals == {77, 109}

SgrChunks ==
    {SgrChunk(b, x, y, T) : b \in SgrButtons, x \in SgrCoords, y \in SgrCoords,
                            T \in SgrFinals}

DecodeType ==
    /\ ~panicked /\ term.initialized
    /\ tty.stdin = <<>>
    /\ \E chunk \in SgrChunks : tty' = [tty EXCEPT !.stdin = chunk]
    /\ written' = <<>>
    /\ last' = Note("input", 0, 0, NoInk, NoSnap)
    /\ UNCHANGED <<term, sigwinch, sigcont, panicked, ops, pc, listener>>

DecodePoll == UNCHANGED ops /\ RunPollEvent

NextDecode ==
    \/ DecodeType
    \/ DecodePoll

SpecDecode == StartedPoll /\ [][NextDecode]_vars

\* the button the report code b stands for
SgrButton(b) ==
    IF b >= 64 THEN (IF b % 2 = 0 THEN MouseWheelUp ELSE MouseWheelDown)
    ELSE CASE b % 4 = 0 -> MouseLeft
           [] b % 4 = 1 -> MouseMiddle
           [] b % 4 = 2 -> MouseRight

\* C19: a read that returns ESC [ < b ; x ; y T (at most 16 bytes, T 'M' or
\* 'm', b at least 64 or b mod 4 in 0..2) is decoded to a mouse event with
\* X = x - 1, Y = y - 1, Press iff T = 'M', and the button b stands for:
\* wheel-up or wheel-down for an even or odd b >= 64, else left, middle or
\* right for b mod 4 = 0, 1 or 2.
C19_SgrMouseDecoded ==
    [][\A b \in SgrButtons, x \in SgrCoords, y \in SgrCoords, T \in SgrFinals :
          (/\ last'.op = "PollEvent" /\ term.eventQueue = <<>>
           /\ tty.stdin = SgrChunk(b, x, y, T)
           /\ Len(tty.stdin) <= 16
           /\ (b >= 64 \/ b % 4 # 3))
          => /\ last'.snap = <<Event("EventMouse", 0, 0, x - 1, y - 1,
                                     SgrButton(b), 0, T = 77), "">>
             /\ tty'.stdin = <<>>]_vars

\* ESC [ < 64 ; 5 ; 10 M was decoded: wheel-up, pressed, at (4, 9)
C19_Witness ==
    /\ last.op = "PollEvent"
    /\ last.snap = <<Event("EventMouse", 0, 0, 4, 9, MouseWheelUp, 0, TRUE), "">>

\* C20: a mouse event decoded from an SGR report has 0 <= X < width and
\* 0 <= Y < height of the session.
C20_MouseInsideGrid ==
    (last.op = "PollEvent" /\ last.snap[1].Type = "EventMouse")
        => /\ 0 <= last.snap[1].X /\ last.snap[1].X < term.width
           /\ 0 <= last.snap[1].Y /\ last.snap[1].Y < term.height

----------------------------------------------------------------------------
(* SpecKeys: key presses, escape sequences, legacy mouse reports and         *)
(* truncated or malformed sequences reach stdin one burst at a time and the *)
(* caller polls them, on a session of InitSize.                             *)

Bytes == 0 .. 255

\* bytes that escape sequences are made of: [ O 1 2 3 5 6 ~ A M < ; and ESC
CsiAlphabet == {91, 79, 49, 50, 51, 53, 54, 126, 65, 77, 60, 59, 27}

\* the bytes of a legacy report after ESC [ M: any button byte, with the
\* column and row bytes of (1,1), (0,223) and (63,2)
LegacyTails ==
    {<<b>> \o xy : b \in Bytes, xy \in {<<33, 33>>, <<32, 255>>, <<95, 34>>}}

\* SGR reports cut short, with a wrong final byte and with bytes after them:
\* ESC [ < 64 ; 5 ; 10 M up to every length, ESC [ < 0 ; 1 ; 1 X,
\* ESC [ < 0 ; ; 1 M, ESC [ < 0 ; 1 ; 1 M a b
BrokenSgr ==
    {SubSeq(SgrChunk(64, 5, 10, 77), 1, n) : n \in 2 .. 10}
        \cup {SgrChunk(0, 1, 1, 88), <<27, 91, 60, 48, 59, 59, 49, 77>>,
              <<27, 91, 60, 48, 59, 59, 59, 49, 77>>,
              SgrChunk(0, 1, 1, 77) \o <<97, 98>>}

\* the 16-byte report ESC [ < 64 ; 1000 ; 1000 M, and bursts longer than the
\* 16 bytes one read takes: ESC [ < 64 ; 1000 ; 10000 M (17 bytes) and
\* seventeen letters "a"
LongBursts ==
    {SgrChunk(64, 1000, 1000, 77), SgrChunk(64, 1000, 10000, 77),
     [i \in 1 .. 17 |-> 97]}

KeyChunks ==
    {<<b>> : b \in Bytes}
        \cup {<<27, b>> : b \in CsiAlphabet}
        \cup {<<27, 91, b>> : b \in Bytes}
        \cup {<<27, a, b, c>> : a \in {91, 79}, b \in CsiAlphabet, c \in CsiAlphabet}
        \cup {<<27, 91, 49, b, c>> : b \in 48 .. 57 \cup {126, 59},
                                     c \in {126, 49, 59, 65}}
        \cup {<<27, 91, d, 126, 98>> : d \in 49 .. 54}
        \cup {<<27, 91, 77>> \o tail : tail \in LegacyTails}
        \cup {<<27, 91, 77, 32>>, <<27, 91, 77, 32, 33>>}
        \cup {SgrChunk(b, 3, 1, T) : b \in {0, 65}, T \in SgrFinals}
        \cup BrokenSgr
        \cup LongBursts

KeysType ==
    /\ ~panicked /\ term.initialized
    /\ tty.stdin = <<>>
    /\ \E chunk \in KeyChunks : tty' = [tty EXCEPT !.stdin = chunk]
    /\ written' = <<>>
    /\ last' = Note("input", 0, 0, NoInk, NoSnap)
    /\ UNCHANGED <<term, sigwinch, sigcont, panicked, ops, pc, listener>>

KeysPoll == UNCHANGED ops /\ RunPollEvent

NextKeys ==
    \/ KeysType
    \/ KeysPoll

SpecKeys == StartedPoll /\ [][NextKeys]_vars

\* PollEvent reads in this step the chunk that is the whole of stdin
ReadsChunk ==
    /\ last'.op = "PollEvent" /\ term.eventQueue = <<>>
    /\ Len(tty.stdin) \in 1 .. 16

\* the key named by a single control byte
NamedByte ==
    [b \in {1, 3, 4, 5, 9, 11, 13, 21, 23, 127} |->
        CASE b = 1 -> KeyCtrlA [] b = 3 -> KeyCtrlC [] b = 4 -> KeyCtrlD
          [] b = 5 -> KeyCtrlE [] b = 9 -> KeyTab [] b = 11 -> KeyCtrlK
          [] b = 13 -> KeyEnter [] b = 21 -> KeyCtrlU [] b = 23 -> KeyCtrlW
          [] b = 127 -> KeyBackspace]

\* C21: a read that returns the single byte b is decoded, without error, to
\* the key event Escape for b = 0x1B, to the key event Ctrl-A, Ctrl-C,
\* Ctrl-D, Ctrl-E, Tab, Ctrl-K, Enter, Ctrl-U, Ctrl-W, Backspace (no
\* character) for b = 1, 3, 4, 5, 9, 11, 13, 21, 23, 127, and for every
\* other b to a key event with no named key and the character b.
C21_SingleBytes ==
    [][(ReadsChunk /\ Len(tty.stdin) = 1)
       => LET b == tty.stdin[1]
          IN  last'.snap =
                <<IF b = 27 THEN Event("EventKey", KeyEscape, 0, 0, 0, 0, 0, FALSE)
                  ELSE IF b \in DOMAIN NamedByte
                  THEN Event("EventKey", NamedByte[b], 0, 0, 0, 0, 0, FALSE)
                  ELSE Event("EventKey", 0, b, 0, 0, 0, 0, FALSE), "">>]_vars

\* the byte 127 was read and decoded to Backspace
C21_Witness ==
    /\ last.op = "PollEvent" /\ last.x = 0 /\ tty.stdin = <<>>
    /\ last.snap = <<Event("EventKey", KeyBackspace, 0, 0, 0, 0, 0, FALSE), "">>

\* buf begins with the bytes of pre
StartsWith(buf, pre) ==
    Len(buf) >= Len(pre) /\ SubSeq(buf, 1, Len(pre)) = pre

\* the first position from i on (1-based) where buf has no decimal digit
RECURSIVE DigitsEnd(_, _)
DigitsEnd(buf, i) ==
    IF i <= Len(buf) /\ buf[i] \in 48 .. 57 THEN DigitsEnd(buf, i + 1) ELSE i

\* buf begins with an SGR mouse report: ESC [ < digits ; digits ; digits M|m
SgrReport(buf) ==
    /\ StartsWith(buf, <<27, 91, 60>>)
    /\ LET b == DigitsEnd(buf, 4)
       IN  /\ b > 4 /\ b <= Len(buf) /\ buf[b] = 59
           /\ LET x == DigitsEnd(buf, b + 1)
              IN  /\ x > b + 1 /\ x <= Len(buf) /\ buf[x] = 59
                  /\ LET y == DigitsEnd(buf, x + 1)
                     IN  y > x + 1 /\ y <= Len(buf) /\ buf[y] \in {77, 109}

\* buf begins with a legacy mouse report: ESC [ M and three bytes
LegacyReport(buf) == StartsWith(buf, <<27, 91, 77>>) /\ Len(buf) >= 6

\* the key of a chunk that begins with ESC [ and a key sequence, else 0
CsiKey(buf) ==
    IF ~StartsWith(buf, <<27, 91>>) \/ Len(buf) < 3 THEN 0
    ELSE CASE buf[3] = 65 -> KeyArrowUp
           [] buf[3] = 66 -> KeyArrowDown
           [] buf[3] = 67 -> KeyArrowRight
           [] buf[3] = 68 -> KeyArrowLeft
           [] buf[3] = 72 -> KeyHome
           [] buf[3] = 70 -> KeyEnd
           [] Len(buf) >= 4 /\ buf[4] = 126 /\ buf[3] = 49 -> KeyHome
           [] Len(buf) >= 4 /\ buf[4] = 126 /\ buf[3] = 51 -> KeyDelete
           [] Len(buf) >= 4 /\ buf[4] = 126 /\ buf[3] = 53 -> KeyPageUp
           [] Len(buf) >= 4 /\ buf[4] = 126 /\ buf[3] = 54 -> KeyPageDown
           [] Len(buf) >= 5 /\ buf[5] = 126 /\ buf[3] = 49
                            /\ buf[4] \in 49 .. 53 -> 16 + (buf[4] - 49)
           [] OTHER -> 0

\* C22: a read that returns a chunk beginning with ESC [ A/B/C/D/H/F is
\* decoded to ArrowUp/ArrowDown/ArrowRight/ArrowLeft/Home/End; one beginning
\* with ESC [ d ~ for d = 1, 3, 5, 6 to Home, Delete, PageUp, PageDown; one
\* beginning with ESC [ 1 d ~ for d in 1..5 to F1..F5 (keys 16..20); and
\* every other chunk of two or more bytes beginning with ESC that is neither
\* an SGR nor a legacy mouse report to Escape.
C22_EscapeSequences ==
    [][LET chunk == tty.stdin
       IN (/\ ReadsChunk
           /\ Len(chunk) > 1 /\ chunk[1] = 27
           /\ ~SgrReport(chunk) /\ ~LegacyReport(chunk))
          => last'.snap =
                <<Event("EventKey",
                        IF CsiKey(chunk) # 0 THEN CsiKey(chunk) ELSE KeyEscape,
                        0, 0, 0, 0, 0, FALSE), "">>]_vars

\* ESC [ 1 5 ~ was read and decoded to F5, the fifth key from KeyF1
C22_Witness ==
    /\ last.op = "PollEvent" /\ last.x = 0 /\ tty.stdin = <<>>
    /\ last.snap = <<Event("EventKey", 20, 0, 0, 0, 0, 0, FALSE), "">>

\* C23: PollEvent, for every chunk of 1..16 bytes that its read returns,
\* returns one event and no error: a key event or a mouse event, which is
\* what parseInput gives for these bytes whatever was decoded before; the
\* session is left as it was and the bytes are consumed.
C23_DecoderTotal ==
    [][(last'.op = "PollEvent" /\ term.eventQueue = <<>>)
       => LET chunk == SubSeq(tty.stdin, 1, Min(16, Len(tty.stdin)))
          IN  /\ Len(last'.snap) = 2
              /\ last'.snap[2] = ""
              /\ last'.snap[1].Type \in {"EventKey", "EventMouse"}
              /\ last'.snap[1] = parseInput(chunk).evt
              /\ term' = term
              /\ tty'.stdin = SubSeq(tty.stdin, Len(chunk) + 1, Len(tty.stdin))]_vars

\* the read took the first 16 bytes of ESC [ < 64 ; 1000 ; 10000 M, a report
\* without its final byte, which was decoded to Escape; the M waits on stdin
C23_Witness ==
    /\ last.op = "PollEvent" /\ last.x = 0
    /\ tty.stdin = <<77>>
    /\ last.snap = <<Event("EventKey", KeyEscape, 0, 0, 0, 0, 0, FALSE), "">>

\* C24: a read that returns ESC [ M b cx cy is decoded to a mouse press at
\* X = cx - 32, Y = cy - 32 whose button follows from v = b - 32 (as a byte)
\* by the rules of the SGR decoder: wheel-up or wheel-down for an even or
\* odd v >= 64, else left, middle or right for v mod 4 = 0, 1 or 2; for
\* every byte b.
C24_LegacyMouse ==
    [][(ReadsChunk /\ Len(tty.stdin) = 6 /\ StartsWith(tty.stdin, <<27, 91, 77>>))
       => LET tail == SubSeq(tty.stdin, 4, 6)
              v == (tail[1] - 32) % 256
          IN  (v >= 64 \/ v % 4 # 3)
              => last'.snap =
                    <<Event("EventMouse", 0, 0, tail[2] - 32, tail[3] - 32,
                            SgrButton(v), 0, TRUE), "">>]_vars

----------------------------------------------------------------------------
(* SpecWinch: the resize listener on terminals whose size has to be asked   *)
(* for.  The environment is chosen at the start, the program has called     *)
(* Init with success; from then on the window changes, the listener runs,   *)
(* input arrives, the caller polls, and the terminal may stop and resume    *)
(* answering the cursor-position query.  Replies that make the session      *)
(* 80 x 24 are left out.                                                    *)

WinchReplies == {"report", "timeout", "short"}

StartedWinch ==
    /\ \E env \in Envs, ok \in BOOLEAN, rep \in WinchReplies, slow \in BOOLEAN :
          LET d == [StartTty EXCEPT !.envCols = env[1], !.envLines = env[2],
                                    !.ioctlOk = ok, !.replies = rep,
                                    !.slow = slow]
              r == Init(ZeroTerminal, d)
          IN  /\ ~r.err
              /\ term = r.term
              /\ tty = r.tty
    /\ written = <<>>
    /\ sigwinch = FALSE
    /\ sigcont = FALSE
    /\ panicked = FALSE
    /\ ops = 0
    /\ pc = "idle"
    /\ listener = ListenerWaits
    /\ last = [op |-> "Init", prev |-> "other", x |-> 0, y |-> 0,
               ink |-> NoInk, snap |-> NoSnap]

\* the terminal changes the way it answers the query
WinchAnswers ==
    /\ ~panicked /\ term.initialized
    /\ \E rep \in WinchReplies \ {tty.replies} :
          tty' = [tty EXCEPT !.replies = rep]
    /\ written' = <<>>
    /\ last' = Note("replies", 0, 0, NoInk, NoSnap)
    /\ UNCHANGED <<term, sigwinch, sigcont, panicked, ops, pc, listener>>

NextWinch ==
    \/ WinchAnswers
    \/ PollWindowChange
    \/ PollListen
    \/ PollType
    \/ PollCall

SpecWinch == StartedWinch /\ [][NextWinch]_vars

\* C25: the resize listener, handling a notification, writes no byte to the
\* terminal and reads no byte from stdin, in every environment.
C25_ListenerDoesNoTerminalIO ==
    [][last'.op = "handleSigwinch"
       => /\ written' = <<>>
          /\ tty'.stdin = tty.stdin
          /\ tty'.row = tty.row /\ tty'.col = tty.col]_vars

----------------------------------------------------------------------------
(* SpecRace: handleSigwinch runs in its own goroutine and takes no lock, so  *)
(* the caller's operations run between the statements of the body of its    *)
(* loop.  The program has called Init; the window changes, the listener     *)
(* advances one statement at a time, and the caller draws and presents.     *)

\* window changes explored by SpecRace
MaxRaceResizes == 1

RaceWindowChange ==
    /\ ops < MaxRaceResizes /\ ops' = ops + 1
    /\ \E sz \in Sizes : WindowChangeTo(sz)

\* one statement of the body of handleSigwinch's loop after getTermSize, at
\* position l.at: [term, at], at being the position after it
handleSigwinchStep(t, l) ==
    CASE l.at = "width" ->
            [term |-> [t EXCEPT !.width = l.width], at |-> "height"]
      [] l.at = "height" ->
            [term |-> [t EXCEPT !.height = l.height], at |-> "buffer"]
      [] l.at = "buffer" ->
            [term |-> [t EXCEPT !.buffer = initBuffer(l.width, l.height)],
             at |-> "backBuffer"]
      [] l.at = "backBuffer" ->
            [term |-> [t EXCEPT !.backBuffer = initBuffer(l.width, l.height)],
             at |-> "append"]
      [] OTHER ->
            [term |-> [t EXCEPT !.eventQueue = IF Len(@) < t.queueCap
                                               THEN Append(@, EventResize) ELSE @],
             at |-> "receive"]

\* the listener receives the notification, calls getTermSize and tests the
\* result against the session's width and height
RaceReceive ==
    /\ ~panicked /\ sigwinch /\ listener.at = "receive"
    /\ sigwinch' = FALSE
    /\ LET sz == getTermSize(tty)
       IN  /\ tty' = [TtyApply(tty, sz.out) EXCEPT !.stdin = sz.stdin]
           /\ written' = sz.out
           /\ listener' = IF ~sz.err /\ (sz.w # term.width \/ sz.h # term.height)
                          THEN [at |-> "width", width |-> sz.w, height |-> sz.h]
                          ELSE ListenerWaits
    /\ last' = Note("getTermSize", 0, 0, NoInk, NoSnap)
    /\ UNCHANGED <<term, sigcont, panicked, ops, pc>>

\* the listener executes its next statement
RaceStep ==
    /\ ~panicked /\ listener.at # "receive"
    /\ LET r == handleSigwinchStep(term, listener)
       IN  /\ term' = r.term
           /\ listener' = IF r.at = "receive" THEN ListenerWaits
                          ELSE [listener EXCEPT !.at = r.at]
    /\ written' = <<>>
    /\ last' = Note(listener.at, 0, 0, NoInk, NoSnap)
    /\ UNCHANGED <<tty, sigwinch, sigcont, panicked, ops, pc>>

\* some cell inside width w and height h is not a cell of the grid: the
\* index expression Cells[y][x] panics there
Missing(cells, w, h) ==
    \E y \in 0 .. h - 1, x \in 0 .. w - 1 : ~HasCell(cells, y, x)

\* a call that does not write: the session after it, or the panic
RaceCall(op, x, y, panics, t2) ==
    /\ panicked' = panics
    /\ term' = IF panics THEN term ELSE t2
    /\ written' = <<>>
    /\ last' = Note(op, x, y, NoInk, NoSnap)
    /\ UNCHANGED <<tty, sigwinch, sigcont, ops, pc, listener>>

RaceSetCell ==
    /\ ~panicked /\ term.initialized
    /\ \E p \in Points :
          RaceCall("SetCell", p[1], p[2],
                   /\ ~OutOfBounds(p[1], p[2], term)
                   /\ ~HasCell(term.buffer.Cells, p[2], p[1]),
                   SetCell(term, p[1], p[2], "A", 1, 0))

RaceGetCell ==
    /\ ~panicked /\ term.initialized
    /\ \E p \in Points :
          RaceCall("GetCell", 0, 0,
                   /\ ~OutOfBounds(p[1], p[2], term)
                   /\ ~HasCell(term.buffer.Cells, p[2], p[1]),
                   term)

RaceClear ==
    /\ ~panicked /\ term.initialized
    /\ RaceCall("Clear", 0, 0,
                \/ Missing(term.buffer.Cells, term.width, term.height)
                \/ Missing(term.backBuffer.Cells, term.width, term.height),
                Clear(term))

RaceScroll ==
    /\ ~panicked /\ term.initialized
    /\ RaceCall("Scroll", 1, 0,
                Missing(term.buffer.Cells, term.width, term.height),
                Scroll(term, 1).term)

RacePresent ==
    /\ ~panicked /\ term.initialized
    /\ LET r == Present(term)
       IN  /\ term' = r.term
           /\ written' = r.out
           /\ tty' = TtyApply(tty, r.out)
           /\ panicked' = r.panic
    /\ last' = Note("Present", 0, 0, NoInk, NoSnap)
    /\ UNCHANGED <<sigwinch, sigcont, ops, pc, listener>>

NextRace ==
    \/ RaceWindowChange
    \/ RaceReceive
    \/ RaceStep
    \/ RaceSetCell
    \/ RaceGetCell
    \/ RaceClear
    \/ RaceScroll
    \/ RacePresent

SpecRace == StartedPoll /\ [][NextRace]_vars

\* C26: under every interleaving of the statements of the resize listener
\* with the caller's SetCell, GetCell, Clear, Scroll and Present, no call
\* indexes a grid at a row or column the grid does not have.
C26_SharingIsBenign == ~panicked

----------------------------------------------------------------------------
(* SpecStop: Suspend statement by statement, on terminals whose termios     *)
(* ioctls may fail, with handleSigcont running beside the caller.  pc is    *)
(* the caller's position in Suspend; "stopped" is the process after the     *)
(* stop signal, until the shell continues it.                               *)

\* Suspend is called
StopCall ==
    /\ ~panicked /\ pc = "idle"
    /\ pc' = "Suspend"
    /\ written' = <<>>
    /\ last' = Note("Suspend", 0, 0, NoInk, NoSnap)
    /\ UNCHANGED <<term, tty, sigwinch, sigcont, panicked, ops, listener>>

\* the statement of Suspend at position at: the session, the device, the
\* bytes written and the next position
SuspendStep(t, d, at) ==
    CASE at = "Suspend" ->
           [term |-> t, tty |-> d, out |-> <<>>,
            at |-> IF ~t.initialized THEN "idle" ELSE "disableRawMode"]
      [] at = "disableRawMode" ->
           [term |-> t, tty |-> disableRawMode(t, d).tty, out |-> <<>>,
            at |-> "isRaw"]
      [] at = "isRaw" ->
           [term |-> [t EXCEPT !.isRaw = FALSE], tty |-> d, out |-> <<>>,
            at |-> "ClearScreen"]
      [] at = "ClearScreen" ->
           [term |-> t, tty |-> TtyApply(d, <<ClearScreen>>),
            out |-> <<ClearScreen>>, at |-> "ShowCursor"]
      [] at = "ShowCursor" ->
           [term |-> t, tty |-> TtyApply(d, <<ShowCursor>>),
            out |-> <<ShowCursor>>, at |-> "NormalScreen"]
      [] at = "NormalScreen" ->
           [term |-> t, tty |-> TtyApply(d, <<NormalScreen>>),
            out |-> <<NormalScreen>>, at |-> "Kill"]
      [] OTHER ->
           [term |-> t, tty |-> d, out |-> <<>>, at |-> "stopped"]

SuspendSteps ==
    {"Suspend", "disableRawMode", "isRaw", "ClearScreen", "ShowCursor",
     "NormalScreen", "Kill"}

\* the caller executes the next statement of Suspend
StopStep ==
    /\ pc \in SuspendSteps
    /\ LET r == SuspendStep(term, tty, pc)
       IN  /\ term' = r.term
           /\ tty' = r.tty
           /\ written' = r.out
           /\ pc' = r.at
    /\ UNCHANGED <<sigwinch, sigcont, panicked, ops, listener, last>>

\* the shell continues the stopped process: SIGCONT is delivered and
\* syscall.Kill returns
StopContinue ==
    /\ pc = "stopped"
    /\ pc' = "idle"
    /\ sigcont' = TRUE
    /\ written' = <<>>
    /\ last' = [last EXCEPT !.op = "SIGCONT", !.prev = "Suspend"]
    /\ UNCHANGED <<term, tty, sigwinch, panicked, ops, listener>>

StopInit == pc = "idle" /\ LifeInit

StopClose == pc = "idle" /\ LifeClose

StopResume == pc = "idle" /\ LifeResume

\* SIGCONT from elsewhere reaches the running process
StopSigcont == pc # "stopped" /\ LifeSigcont

\* handleSigcont runs beside the caller while the process is not stopped
StopListenSigcont == pc # "stopped" /\ LifeListenSigcont

StopFault == LifeFault

NextStop ==
    \/ StopCall
    \/ StopStep
    \/ StopContinue
    \/ StopInit
    \/ StopClose
    \/ StopResume
    \/ StopSigcont
    \/ StopListenSigcont
    \/ StopFault

SpecStop == ZeroLife /\ [][NextStop]_vars

\* the stop signal is raised in this step
RaisesStop == pc = "Kill" /\ pc' = "stopped"

\* C27: when Suspend raises the stop signal on an initialized session, the
\* terminal attributes equal the saved snapshot, the raw flag is cleared,
\* the cursor is shown and the alternate screen is left; Suspend on an
\* uninitialized session returns without a change, a byte or a signal.
C27_CookedBeforeStop ==
    [][/\ RaisesStop =>
            /\ tty.attrs = term.origTermios
            /\ ~term.isRaw
            /\ tty.cursorOn
            /\ ~tty.alt
       /\ (pc = "Suspend" /\ ~term.initialized /\ pc' # pc) =>
            /\ pc' = "idle"
            /\ written' = <<>>
            /\ UNCHANGED <<term, tty>>]_vars

----------------------------------------------------------------------------
(* SpecOverlay: SaveBuffer and RestoreBuffer around drawing calls.  The     *)
(* program has called Init and Present; it draws with SetCell and Clear,    *)
(* saves, restores and presents, and the window may change size.  last.snap *)
(* holds the front cells as they were when SaveBuffer was last called,      *)
(* last.y = 1 says that a resize was handled since, last.prev is the        *)
(* operation before the last one.                                           *)

\* calls and signals in one run
MaxOverlayOps == 6

OverlayTick == ops < MaxOverlayOps /\ ops' = ops + 1

\* what the caller draws with between SaveBuffer and RestoreBuffer: a glyph,
\* and the value Clear stores in the back buffer
OverlayInks == {<<"A", 1, 0>>, <<"X", 0, 0>>}

\* the cells of the 2 x 1 and of the 1 x 2 grid
OverlayPoints == {<<0, 0>>, <<1, 0>>, <<0, 1>>}

Remember(op) == [last EXCEPT !.op = op, !.prev = last.op]

OverlaySetCell ==
    /\ OverlayTick
    /\ \E p \in OverlayPoints, ink \in OverlayInks :
          term' = SetCell(term, p[1], p[2], ink[1], ink[2], ink[3])
    /\ written' = <<>>
    /\ last' = Remember("SetCell")
    /\ UNCHANGED <<tty, sigwinch, sigcont, panicked, pc, listener>>

OverlayClear ==
    /\ OverlayTick
    /\ term' = Clear(term)
    /\ written' = <<>>
    /\ last' = Remember("Clear")
    /\ UNCHANGED <<tty, sigwinch, sigcont, panicked, pc, listener>>

OverlaySaveBuffer ==
    /\ OverlayTick
    /\ term' = SaveBuffer(term)
    /\ written' = <<>>
    /\ last' = [Remember("SaveBuffer") EXCEPT !.y = 0,
                                              !.snap = <<term.buffer.Cells>>]
    /\ UNCHANGED <<tty, sigwinch, sigcont, panicked, pc, listener>>

OverlayRestoreBuffer ==
    /\ OverlayTick
    /\ term' = RestoreBuffer(term)
    /\ written' = <<>>
    /\ last' = Remember("RestoreBuffer")
    /\ UNCHANGED <<tty, sigwinch, sigcont, panicked, pc, listener>>

OverlayPresent ==
    /\ OverlayTick
    /\ LET r == Present(term)
       IN  /\ term' = r.term
           /\ written' = r.out
           /\ tty' = TtyApply(tty, r.out)
           /\ panicked' = r.panic
    /\ last' = Remember("Present")
    /\ UNCHANGED <<sigwinch, sigcont, pc, listener>>

\* the window takes another size and the process receives SIGWINCH
OverlayWindowChange ==
    /\ OverlayTick /\ ~sigwinch
    /\ \E sz \in Sizes :
          /\ sz # <<tty.winW, tty.winH>>
          /\ tty' = TtyResize(tty, sz[1], sz[2])
    /\ sigwinch' = TRUE
    /\ written' = <<>>
    /\ last' = Remember("SIGWINCH")
    /\ UNCHANGED <<term, sigcont, panicked, pc, listener>>

\* handleSigwinch takes the notification
OverlayListen ==
    /\ OverlayTick
    /\ sigwinch
    /\ sigwinch' = FALSE
    /\ LET r == handleSigwinch(term, tty)
       IN  /\ term' = r.term
           /\ tty' = r.tty
           /\ written' = r.out
    /\ last' = [Remember("handleSigwinch") EXCEPT !.y = 1]
    /\ UNCHANGED <<sigcont, panicked, pc, listener>>

NextOverlay ==
    \/ OverlaySetCell
    \/ OverlayClear
    \/ OverlaySaveBuffer
    \/ OverlayRestoreBuffer
    \/ OverlayPresent
    \/ OverlayWindowChange
    \/ OverlayListen

SpecOverlay == StartedDiff /\ [][NextOverlay]_vars

\* the front cells as they were at the last SaveBuffer
SavedFront == last.snap[1]

\* RestoreBuffer returned and no resize was handled since the SaveBuffer
RestoredSameGrid ==
    last.op = "RestoreBuffer" /\ last.snap # NoSnap /\ last.y = 0

\* after SaveBuffer, drawing calls and RestoreBuffer every front cell has the
\* value it had at SaveBuffer time and is dirty
FrontRestored ==
    RestoredSameGrid =>
        \A c \in GridCells(term) :
            SameCell(Front(c), SavedFront[c[1]][c[2]]) /\ Front(c).Dirty

\* the Present that follows leaves the saved content on the screen
SavedContentShown ==
    (/\ last.op = "Present" /\ last.prev = "RestoreBuffer"
     /\ last.snap # NoSnap /\ last.y = 0 /\ ~sigwinch) =>
        \A c \in GridCells(term) :
            SameCell(tty.screen[c[1] + 1][c[2] + 1], SavedFront[c[1]][c[2]])

RestoreBufferReturns == last'.op = "RestoreBuffer"

\* RestoreBuffer with no SaveBuffer before it changes nothing
RestoreWithoutSave ==
    (RestoreBufferReturns /\ term.savedBuffer.isNil) => UNCHANGED <<term, tty>>

\* RestoreBuffer changes no cell outside the saved grid or the current one
RestoreInsideBoth ==
    RestoreBufferReturns =>
        /\ DOMAIN term'.buffer.Cells = DOMAIN term.buffer.Cells
        /\ ~panicked'
        /\ \A y \in DOMAIN term.buffer.Cells :
              /\ DOMAIN term'.buffer.Cells[y] = DOMAIN term.buffer.Cells[y]
              /\ \A x \in DOMAIN term.buffer.Cells[y] :
                    (~(/\ y < term.height /\ x < term.width
                       /\ HasCell(term.savedBuffer.cells, y, x)))
                       => term'.buffer.Cells[y][x] = term.buffer.Cells[y][x]

\* C28: with no resize in between, SaveBuffer, drawing calls and
\* RestoreBuffer leave every front cell with its value of SaveBuffer time and
\* dirty, and the following Present leaves the saved content on the screen;
\* RestoreBuffer without a SaveBuffer changes nothing; after a resize,
\* RestoreBuffer changes only cells inside both the saved and the current grid.
C28_OverlayRoundTrip ==
    /\ [](FrontRestored /\ SavedContentShown)
    /\ [][RestoreWithoutSave /\ RestoreInsideBoth]_vars

\* the same without the Present that follows
FrontRoundTrip ==
    /\ []FrontRestored
    /\ [][RestoreWithoutSave /\ RestoreInsideBoth]_vars

----------------------------------------------------------------------------
(* SpecRender: one Present pass on a 2 x 2 grid.  The program has called    *)
(* Init; it selects pens, draws cells with colors inside and outside        *)
(* 0 .. 255 and calls Present.                                              *)

\* calls in one run
MaxRenderOps == 5

RenderTick == ops < MaxRenderOps /\ ops' = ops + 1

\* (glyph, fg, bg) with colors in range, below 0 and above 255
RenderInks == {<<"A", 1, 0>>, <<"B", -1, 300>>}

RenderPoints == {<<0, 0>>, <<1, 0>>, <<0, 1>>, <<1, 1>>}

RenderSetCell ==
    /\ RenderTick
    /\ \E p \in RenderPoints, ink \in RenderInks :
          term' = SetCell(term, p[1], p[2], ink[1], ink[2], ink[3])
    /\ written' = <<>>
    /\ last' = Note("SetCell", 0, 0, NoInk, NoSnap)
    /\ UNCHANGED <<tty, sigwinch, sigcont, panicked, pc, listener>>

RenderSetAttr ==
    /\ RenderTick
    /\ \E a \in Attrs :
          /\ a # <<term.currentBold, term.currentItalic, term.currentUnder,
                   term.currentRev>>
          /\ term' = SetAttr(term, a[1], a[2], a[3], a[4])
    /\ written' = <<>>
    /\ last' = Note("SetAttr", 0, 0, NoInk, NoSnap)
    /\ UNCHANGED <<tty, sigwinch, sigcont, panicked, pc, listener>>

RenderPresent ==
    /\ RenderTick
    /\ LET r == Present(term)
       IN  /\ term' = r.term
           /\ written' = r.out
           /\ tty' = TtyApply(tty, r.out)
           /\ panicked' = r.panic
    /\ last' = Note("Present", 0, 0, NoInk, NoSnap)
    /\ UNCHANGED <<sigwinch, sigcont, pc, listener>>

NextRender ==
    \/ RenderSetCell
    \/ RenderSetAttr
    \/ RenderPresent

SpecRender == StartedDraw /\ [][NextRender]_vars

\* the cursor position and the rendition of device d before each glyph of toks
RECURSIVE GlyphMarks(_, _)
GlyphMarks(d, toks) ==
    IF toks = <<>> THEN <<>>
    ELSE (IF Head(toks).op = "CH"
          THEN <<[row |-> d.row, col |-> d.col, sgr |-> d.sgr,
                  ch |-> Head(toks).ch]>>
          ELSE <<>>) \o GlyphMarks(TtyStep(d, Head(toks)), Tail(toks))

\* a color number inside 0 .. 255
Clamped(v) == IF v < 0 THEN 0 ELSE IF v > 255 THEN 255 ELSE v

\* what the terminal must be set to when the glyph of cell (y, x) arrives
CellMark(t, y, x) ==
    LET c == t.buffer.Cells[y][x]
    IN  [row |-> y + 1, col |-> x + 1,
         sgr |-> [Fg |-> Clamped(c.Fg), Bg |-> Clamped(c.Bg), Bold |-> c.Bold,
                  Italic |-> c.Italic, Under |-> c.Under, Rev |-> c.Rev],
         ch |-> c.Ch]

\* the cells of t a Present emits, in row-major order from k = y * width + x
RECURSIVE EmittedMarks(_, _)
EmittedMarks(t, k) ==
    IF k >= t.width * t.height THEN <<>>
    ELSE LET y == k \div t.width
             x == k % t.width
         IN  (IF /\ t.buffer.Cells[y][x].Dirty
                 /\ ~SameCell(t.buffer.Cells[y][x], t.backBuffer.Cells[y][x])
              THEN <<CellMark(t, y, x)>> ELSE <<>>) \o EmittedMarks(t, k + 1)

\* C29: in one Present pass on a terminal in reset state, when the glyph of
\* a cell is emitted the sequences emitted before it have put the cursor at
\* the cell's 1-based row and column and the rendition at the cell's bold,
\* italic, underline, reverse, fg and bg, the colors clamped to 0 .. 255.
C29_RendererCorrect ==
    [][(last'.op = "Present" /\ tty.sgr = ResetSgr)
          => GlyphMarks(tty, written') = EmittedMarks(term, 0)]_vars

----------------------------------------------------------------------------
(* The commit of Present, in Spec                                           *)

\* the dirty cells of t that equal their back-buffer cell
DirtyButSame(t) ==
    {c \in GridCells(t) :
        /\ t.buffer.Cells[c[1]][c[2]].Dirty
        /\ SameCell(t.buffer.Cells[c[1]][c[2]], t.backBuffer.Cells[c[1]][c[2]])}

\* t with the dirty flag of those cells cleared beforehand
SameCleared(t) ==
    [t EXCEPT !.buffer.Cells = [y \in DOMAIN @ |-> [x \in DOMAIN @[y] |->
        IF <<y, x>> \in DirtyButSame(t) THEN [@[y][x] EXCEPT !.Dirty = FALSE]
        ELSE @[y][x]]]]

\* C30: when Present returns on a session with non-zero dimensions, no front
\* cell is dirty and every back-buffer cell equals the front cell at its
\* coordinate; for a dirty cell that equals its back-buffer cell the flag is
\* cleared and nothing is written: no glyph lands on it and the bytes of the
\* write are those of a Present that meets the cell not dirty.
C30_PresentCommits ==
    [][(last'.op = "Present" /\ ~panicked' /\ term.width # 0 /\ term.height # 0)
          => /\ \A c \in GridCells(term') :
                  /\ ~term'.buffer.Cells[c[1]][c[2]].Dirty
                  /\ SameCell(term'.backBuffer.Cells[c[1]][c[2]],
                              term'.buffer.Cells[c[1]][c[2]])
             /\ GridCells(term') = (0 .. term.height - 1) \X (0 .. term.width - 1)
             /\ GlyphCells(written', tty.row, tty.col) \cap DirtyButSame(term) = {}
             /\ written' = Present(SameCleared(term)).out]_vars

\* Present has returned after Resume: every cell was dirty and equal to its
\* back-buffer cell, no glyph was written and no cell is dirty
C30_Witness ==
    /\ last.op = "Present" /\ last.prev = "Resume"
    /\ term.initialized /\ term.width # 0 /\ term.height # 0
    /\ GlyphCount(written) = 0
    /\ \A c \in GridCells(term) : ~Front(c).Dirty /\ SameCell(Front(c), Back(c))

----------------------------------------------------------------------------
(* The economy of Present, in SpecRender                                    *)

\* the coordinates (y, x) of the cells of t a Present emits, in row-major
\* order from k = y * width + x
RECURSIVE EmittedCells(_, _)
EmittedCells(t, k) ==
    IF k >= t.width * t.height THEN <<>>
    ELSE LET y == k \div t.width
             x == k % t.width
         IN  (IF /\ t.buffer.Cells[y][x].Dirty
                 /\ ~SameCell(t.buffer.Cells[y][x], t.backBuffer.Cells[y][x])
              THEN <<(<<y, x>>)>> ELSE <<>>) \o EmittedCells(t, k + 1)

\* toks cut after each glyph: the tokens before the first glyph, those
\* between one glyph and the next, and at last those after the last glyph
RECURSIVE Segments(_, _)
Segments(toks, seg) ==
    IF toks = <<>> THEN <<seg>>
    ELSE IF Head(toks).op = "CH" THEN <<seg>> \o Segments(Tail(toks), <<>>)
    ELSE Segments(Tail(toks), Append(seg, Head(toks)))

\* how many tokens of seg satisfy op = o and n \in ns
Count(seg, o, ns) ==
    Cardinality({i \in DOMAIN seg : seg[i].op = o /\ seg[i].n \in ns})

\* the rendition the pass has emitted before cell i of cells: that of the
\* cell emitted before it, and for the first cell no color and no attribute
EmittedBefore(t, cells, i) ==
    IF i = 1
    THEN [Fg |-> 0, Bg |-> 0, Bold |-> FALSE, Italic |-> FALSE,
          Under |-> FALSE, Rev |-> FALSE, y |-> -1, x |-> -1]
    ELSE LET c == t.buffer.Cells[cells[i - 1][1]][cells[i - 1][2]]
         IN  [Fg |-> c.Fg, Bg |-> c.Bg, Bold |-> c.Bold, Italic |-> c.Italic,
              Under |-> c.Under, Rev |-> c.Rev,
              y |-> cells[i - 1][1], x |-> cells[i - 1][2]]

\* the tokens before glyph i hold only what cell i needs
SegmentNeeded(t, cells, segs, i) ==
    LET seg == segs[i]
        c == t.buffer.Cells[cells[i][1]][cells[i][2]]
        b == EmittedBefore(t, cells, i)
    IN  /\ Count(seg, "CUP", 0 .. 1000) <= 1
        /\ Count(seg, "CUP", 0 .. 1000) = 1
              => ~(b.y = cells[i][1] /\ b.x = cells[i][2] - 1)
        /\ Count(seg, "SGR", {0}) = 0
        /\ Count(seg, "SGR", {1, 22}) = (IF c.Bold # b.Bold THEN 1 ELSE 0)
        /\ Count(seg, "SGR", {3, 23}) = (IF c.Italic # b.Italic THEN 1 ELSE 0)
        /\ Count(seg, "SGR", {4, 24}) = (IF c.Under # b.Under THEN 1 ELSE 0)
        /\ Count(seg, "SGR", {7, 27}) = (IF c.Rev # b.Rev THEN 1 ELSE 0)
        /\ Count(seg, "FG", 0 .. 255) <= 1
        /\ Count(seg, "FG", 0 .. 255) = 1 => (i = 1 \/ c.Fg # b.Fg)
        /\ Count(seg, "BG", 0 .. 255) <= 1
        /\ Count(seg, "BG", 0 .. 255) = 1 => (i = 1 \/ c.Bg # b.Bg)

\* C31: in the write of a Present, a cursor-position sequence precedes an
\* emitted cell only if the cell emitted before it is not its left neighbor;
\* an attribute toggle or a color sequence precedes it only when that value
\* of the cell differs from the one last emitted in the pass; after the last
\* cell come one reset and at most the cursor reposition, and a pass that
\* emits no cell writes no reset.
C31_OnlyNeededSequences ==
    [][last'.op = "Present" =>
          LET cells == EmittedCells(term, 0)
              segs  == Segments(written', <<>>)
              tail  == segs[Len(segs)]
          IN  /\ Len(segs) = Len(cells) + 1
              /\ \A i \in 1 .. Len(cells) : SegmentNeeded(term, cells, segs, i)
              /\ Count(tail, "SGR", {0}) = (IF Len(cells) > 0 THEN 1 ELSE 0)
              /\ Len(tail) <= Count(tail, "SGR", {0}) + 1
              /\ \A i \in DOMAIN tail : tail[i].op \in {"SGR", "CUP"}
              /\ (Len(cells) > 0 => tail[1] = ResetColor)]_vars

\* Present has emitted two neighbors of one rendition one after the other,
\* with no sequence between the glyphs
C31_Witness ==
    /\ last.op = "Present"
    /\ \E i \in 1 .. Len(written) - 1 :
          written[i].op = "CH" /\ written[i + 1].op = "CH"

----------------------------------------------------------------------------
(* SetCell coalesces, in Spec                                               *)

\* the front cell at (x, y) holds the ink under the pen's attributes
HoldsInk(t, x, y, ink) ==
    LET cell == t.buffer.Cells[y][x]
    IN  /\ <<cell.Ch, cell.Fg, cell.Bg>> = ink
        /\ <<cell.Bold, cell.Italic, cell.Under, cell.Rev>>
             = <<t.currentBold, t.currentItalic, t.currentUnder, t.currentRev>>

\* C32: SetCell(x, y, ch, fg, bg) inside the grid leaves the front cell and
\* its dirty flag as they were when glyph, colors and the pen's attributes
\* equal the cell's, and otherwise stores them and sets the flag; either way
\* no other front cell and no back-buffer cell changes.
C32_SetCellCoalesces ==
    [][(last'.op = "SetCell" /\ ~OutOfBounds(last'.x, last'.y, term)) =>
          LET x == last'.x
              y == last'.y
          IN  /\ IF HoldsInk(term, x, y, last'.ink)
                 THEN term'.buffer.Cells[y][x] = term.buffer.Cells[y][x]
                 ELSE /\ HoldsInk(term', x, y, last'.ink)
                      /\ term'.buffer.Cells[y][x].Dirty
              /\ \A c \in GridCells(term) :
                    c # <<y, x>> => term'.buffer.Cells[c[1]][c[2]] = Front(c)
              /\ DOMAIN term'.buffer.Cells = DOMAIN term.buffer.Cells
              /\ term'.backBuffer = term.backBuffer
              /\ Pen(term') = Pen(term)]_vars

\* SetCell has met a clean cell that held the requested values already
C32_Witness ==
    /\ last.op = "SetCell" /\ ~OutOfBounds(last.x, last.y, term)
    /\ last.ink = <<"A", 1, 0>>
    /\ HoldsInk(term, last.x, last.y, last.ink)
    /\ ~term.buffer.Cells[last.y][last.x].Dirty

----------------------------------------------------------------------------
(* SpecShare: the event queue between handleSigwinch and the caller's poll. *)
(* term.eventQueue is a slice header that both read and write without a     *)
(* lock: the listener reads it for its test and its append and then writes   *)
(* the longer slice, the caller reads it for its test and its head and then  *)
(* writes the rest.  last.x counts the resize events appended, last.y those  *)
(* a poll has returned, last.snap is the header the caller has read.         *)

\* window changes in one run
MaxShareResizes == 4

ShareWindowChange ==
    /\ ops < MaxShareResizes /\ ops' = ops + 1
    /\ ~sigwinch
    /\ \E sz \in Sizes :
          /\ sz # <<tty.winW, tty.winH>>
          /\ tty' = TtyResize(tty, sz[1], sz[2])
    /\ sigwinch' = TRUE
    /\ written' = <<>>
    /\ last' = [last EXCEPT !.op = "SIGWINCH"]
    /\ UNCHANGED <<term, sigcont, panicked, pc, listener>>

\* the slice header of the queue: its events and its capacity
QueueHeader(t) == [queue |-> t.eventQueue, cap |-> t.queueCap]

\* append(term.eventQueue, Event{Type: EventResize}) stored from the header h
\* that was read
StoreAppended(t, h) ==
    [t EXCEPT !.eventQueue = Append(h.queue, EventResize), !.queueCap = h.cap]

\* term.eventQueue = term.eventQueue[1:] stored from the header h that was read
StoreRest(t, h) ==
    [t EXCEPT !.eventQueue = Tail(h.queue), !.queueCap = h.cap - 1]

\* the listener takes the notification, sets dimensions and grids, tests the
\* queue and reads its header for the append
ShareReceive ==
    /\ sigwinch /\ listener.at = "receive"
    /\ sigwinch' = FALSE
    /\ LET sz == getTermSize(tty)
           resized == ~sz.err /\ (sz.w # term.width \/ sz.h # term.height)
       IN  /\ tty' = [TtyApply(tty, sz.out) EXCEPT !.stdin = sz.stdin]
           /\ written' = sz.out
           /\ term' = IF resized
                      THEN [term EXCEPT !.width = sz.w, !.height = sz.h,
                                        !.buffer = initBuffer(sz.w, sz.h),
                                        !.backBuffer = initBuffer(sz.w, sz.h)]
                      ELSE term
           /\ listener' = IF resized /\ Len(term.eventQueue) < term.queueCap
                          THEN [at |-> "append", width |-> sz.w, height |-> sz.h,
                                header |-> QueueHeader(term)]
                          ELSE ListenerWaits
    /\ last' = [last EXCEPT !.op = "handleSigwinch"]
    /\ UNCHANGED <<sigcont, panicked, ops, pc>>

\* the listener stores the appended slice
ShareAppend ==
    /\ listener.at = "append"
    /\ term' = StoreAppended(term, listener.header)
    /\ listener' = ListenerWaits
    /\ written' = <<>>
    /\ last' = [last EXCEPT !.op = "append", !.x = @ + 1]
    /\ UNCHANGED <<tty, sigwinch, sigcont, panicked, ops, pc>>

\* PollEvent finds the queue non-empty and reads its head
SharePollRead ==
    /\ pc = "idle" /\ Len(term.eventQueue) > 0
    /\ pc' = "dequeue"
    /\ written' = <<>>
    /\ last' = [last EXCEPT !.op = "PollEvent", !.snap = <<QueueHeader(term)>>]
    /\ UNCHANGED <<term, tty, sigwinch, sigcont, panicked, ops, listener>>

\* PollEvent stores the rest of the queue and returns the head
SharePollStore ==
    /\ pc = "dequeue"
    /\ pc' = "idle"
    /\ term' = StoreRest(term, last.snap[1])
    /\ written' = <<>>
    /\ last' = [last EXCEPT !.op = "PollEvent returns", !.y = @ + 1,
                             !.snap = NoSnap]
    /\ UNCHANGED <<tty, sigwinch, sigcont, panicked, ops, listener>>

NextShare ==
    \/ ShareWindowChange
    \/ ShareReceive
    \/ ShareAppend
    \/ SharePollRead
    \/ SharePollStore

SpecShare == StartedPoll /\ [][NextShare]_vars

\* C33: under every interleaving of the listener's append with the caller's
\* dequeue, each resize event appended is returned by exactly one poll: no
\* more events have been returned than appended, and with listener and caller
\* at rest the events appended are those returned and those still queued.
C33_NoEventLostOrDuplicated ==
    /\ last.y <= last.x
    /\ (pc = "idle" /\ listener.at = "receive")
          => last.x = last.y + Len(term.eventQueue)

----------------------------------------------------------------------------
(* The listeners after Close, in Spec                                       *)

\* a listener runs its loop body on a session that Close has left
\* uninitialized (a caller's Resume is not a step of an uninitialized session)
ListenerActsAfterClose ==
    ~term.initialized /\ last'.op \in {"handleSigwinch", "Resume"}

\* C34: once Close has returned, no listener changes the session's
\* dimensions, its grids, its event queue or the terminal mode, also when a
\* resize or continue notification was buffered when Close ran.
C34_CloseStopsListeners ==
    [][ListenerActsAfterClose =>
          /\ term'.width = term.width /\ term'.height = term.height
          /\ term'.buffer = term.buffer /\ term'.backBuffer = term.backBuffer
          /\ term'.eventQueue = term.eventQueue
          /\ term'.isRaw = term.isRaw
          /\ tty'.attrs = tty.attrs]_vars

----------------------------------------------------------------------------
(* SpecCursor: the life cycle of SpecLife with SetCursorVisible.            *)

\* SetCursorVisible(visible): [term, tty, out]
SetCursorVisible(t, d, visible) ==
    IF visible # t.cursorVisible
    THEN LET out == IF visible THEN <<ShowCursor>> ELSE <<HideCursor>>
         IN  [term |-> [t EXCEPT !.cursorVisible = visible],
              tty |-> TtyApply(d, out), out |-> out]
    ELSE [term |-> t, tty |-> d, out |-> <<>>]

\* the program calls SetCursorVisible; last.x = 1 for true, 0 for false
CursorSet ==
    /\ ~panicked
    /\ \E visible \in BOOLEAN :
          LET r == SetCursorVisible(term, tty, visible)
          IN  /\ term' = r.term
              /\ tty' = r.tty
              /\ written' = r.out
              /\ last' = Note("SetCursorVisible", IF visible THEN 1 ELSE 0, 0,
                               NoInk, NoSnap)
    /\ UNCHANGED <<sigwinch, sigcont, panicked, ops, pc, listener>>

NextCursor ==
    \/ LifeInit
    \/ LifeClose
    \/ LifeSuspend
    \/ LifeResume
    \/ LifeSigcont
    \/ LifeListenSigcont
    \/ LifeFault
    \/ CursorSet

SpecCursor == ZeroLife /\ [][NextCursor]_vars

\* C35: in an initialized session that is not suspended, term.cursorVisible
\* is true exactly when the terminal shows its cursor, and SetCursorVisible(v)
\* leaves the terminal's cursor shown for true and hidden for false.
C35_CursorFlagAgrees ==
    /\ (term.initialized /\ ~AfterSuspend) => (term.cursorVisible <=> tty.cursorOn)
    /\ (term.initialized /\ last.op = "SetCursorVisible")
          => (tty.cursorOn <=> last.x = 1)

----------------------------------------------------------------------------
(* SpecModes: mouse reporting and bracketed paste over Init and Close.      *)

EnableMouseMode     == Tok("MOUSE", 1, 0, "")
DisableMouseMode    == Tok("MOUSE", 0, 0, "")
EnableBracketPaste  == Tok("PASTE", 1, 0, "")
DisableBracketPaste == Tok("PASTE", 0, 0, "")

\* the four calls: [term, out]
EnableMouse(t) ==
    IF ~t.mouseEnabled
    THEN [term |-> [t EXCEPT !.mouseEnabled = TRUE], out |-> <<EnableMouseMode>>]
    ELSE [term |-> t, out |-> <<>>]

DisableMouse(t) ==
    IF t.mouseEnabled
    THEN [term |-> [t EXCEPT !.mouseEnabled = FALSE], out |-> <<DisableMouseMode>>]
    ELSE [term |-> t, out |-> <<>>]

EnableBracketedPaste(t) ==
    IF ~t.pasteEnabled
    THEN [term |-> [t EXCEPT !.pasteEnabled = TRUE], out |-> <<EnableBracketPaste>>]
    ELSE [term |-> t, out |-> <<>>]

DisableBracketedPaste(t) ==
    IF t.pasteEnabled
    THEN [term |-> [t EXCEPT !.pasteEnabled = FALSE], out |-> <<DisableBracketPaste>>]
    ELSE [term |-> t, out |-> <<>>]

\* the program makes the call op with result r on its initialized session
ModeCall(op, r) ==
    /\ ~panicked /\ term.initialized
    /\ term' = r.term
    /\ tty' = TtyApply(tty, r.out)
    /\ written' = r.out
    /\ last' = Note(op, 0, 0, NoInk, NoSnap)
    /\ UNCHANGED <<sigwinch, sigcont, panicked, ops, pc, listener>>

ModeEnableMouse == ModeCall("EnableMouse", EnableMouse(term))

ModeDisableMouse == ModeCall("DisableMouse", DisableMouse(term))

ModeEnablePaste == ModeCall("EnableBracketedPaste", EnableBracketedPaste(term))

ModeDisablePaste == ModeCall("DisableBracketedPaste", DisableBracketedPaste(term))

NextModes ==
    \/ LifeInit
    \/ LifeClose
    \/ ModeEnableMouse
    \/ ModeDisableMouse
    \/ ModeEnablePaste
    \/ ModeDisablePaste
    \/ LifeFault

SpecModes == ZeroLife /\ [][NextModes]_vars

\* C36: after any sequence of Init, EnableMouse, DisableMouse,
\* EnableBracketedPaste, DisableBracketedPaste and Close, term.mouseEnabled
\* and term.pasteEnabled are true exactly when the terminal has the mode on
\* (the last sequence emitted for it was the enabling one), and after
\* EnableMouse or EnableBracketedPaste the terminal has the mode on.
C36_ModeFlagsAgree ==
    /\ term.mouseEnabled <=> tty.mouseOn
    /\ term.pasteEnabled <=> tty.pasteOn
    /\ last.op = "EnableMouse" => tty.mouseOn
    /\ last.op = "EnableBracketedPaste" => tty.pasteOn
====
